---- MODULE Spec2Model ----
(***************************************************************************)
(* StudyBro admin: the route handlers of the admin API (leaderboard, CSV    *)
(* export, login, users, dashboard, feedback) and the middleware, with the *)
(* store tables they use, the clock, the session cookie and the outcome of *)
(* each store call.                                                        *)
(*                                                                         *)
(* Time is counted in seconds from an epoch that is a Sunday and the first *)
(* day of a month.  The calendar is scaled down: a day has DayLen seconds  *)
(* and a month DaysPerMonth days; a week keeps its 7 days.                 *)
(***************************************************************************)
EXTENDS Integers, Sequences, FiniteSets, TLC

VARIABLES
    now,        \* the server clock (new Date())
    profiles,   \* table profiles: rows [id, name, avatar_url]
    sessions,   \* table sessions: rows [user_id, mode, duration, created_at]
    tasks,      \* table tasks: rows [user_id, status, created_at, updated_at]
    streaks,    \* table streaks: rows [user_id, current]
    fault,      \* outcome of a query on each table: "ok", "error" or "throw"
    cookie,     \* the admin_session cookie of the request: <<>> or <<token>>
    req,        \* the query parameters of the request in flight
    entries,    \* the handler's local `entries` after rank assignment
    resp,       \* <<>> while the request is pending, then <<response>>
    log,        \* what the handler wrote with console.error
    authUsers,  \* auth.users: rows [id, email, full_name, created_at, banned_until]
    feedbacks,  \* table feedbacks: rows [id, type, user_id, name, created_at]
    calls,      \* the store calls made for the request in flight, in order
    history,    \* the requests answered before this one, with their status
    inflight,   \* requests being handled concurrently, fetches the page waits for
    ui          \* the state of the page component shown in the browser

vars == <<now, profiles, sessions, tasks, streaks, fault, cookie, req, entries, resp, log,
          authUsers, feedbacks, calls, history, inflight, ui>>

----------------------------------------------------------------------------
(* Bounds of the model *)

DayLen == 2
DaysPerMonth == 3
MaxDay == 8
MaxAge == 2
MaxRankUsers == 5
MaxUnionUsers == 3
MaxSessions == 3
MaxOffset == 3
MaxLimit == 3

(* Program constants *)

DaysPerWeek == 7
SessionDays == 7
DefaultLimit == 100
DefaultOffset == 0

Null == "<null>"
Tables == {"profiles", "sessions", "tasks", "streaks"}
Outcomes == {"ok", "error", "throw"}
Modes == {"work", "shortBreak", "longBreak"}
Statuses == {"todo", "doing", "done"}
Times == 0 .. ((MaxDay + 1) * DayLen - 1)

----------------------------------------------------------------------------
(* lib/auth.ts *)

\* a token: well-formed or not, signed with JWT_SECRET or not, and its claims
Token(wellformed, signed, iat, exp) ==
    [ wellformed |-> wellformed, signed |-> signed,
      payload |-> [role |-> "admin", iat |-> iat, exp |-> exp] ]

\* variant: an expiry of 7 seconds instead of 7 days
createSessionSeconds(t) == Token(TRUE, TRUE, t, t + SessionDays)

\* SignJWT({role}).setIssuedAt().setExpirationTime('7d').sign(JWT_SECRET)
createSession(t) == Token(TRUE, TRUE, t, t + SessionDays * DayLen)

\* variant: the expiry of the token is not looked at
jwtVerifyIgnoringExpiry(token, t) == token.wellformed /\ token.signed

\* jwtVerify: the token parses, the signature verifies, the expiry is ahead
jwtVerify(token, t) ==
    /\ token.wellformed
    /\ token.signed
    /\ t < token.payload.exp

verifySession(token, t) ==
    IF jwtVerify(token, t) THEN <<token.payload>> ELSE <<>>

getSession(c, t) ==
    IF c = <<>> THEN <<>> ELSE verifySession(c[1], t)

----------------------------------------------------------------------------
(* getDateRange: the window start of a period, <<>> for no lower bound *)

StartOfDay(t) == (t \div DayLen) * DayLen

getDateRange(period, t) ==
    CASE period = "today" -> <<StartOfDay(t)>>
      [] period = "week" ->
            LET day == t \div DayLen
                dayOfWeek == day % DaysPerWeek
            IN  <<(day - dayOfWeek) * DayLen>>
      [] period = "month" ->
            LET day == t \div DayLen
            IN  <<(day - (day % DaysPerMonth)) * DayLen>>
      [] OTHER -> <<>>

----------------------------------------------------------------------------
(* JavaScript Map: insertion-ordered keys and their values *)

MapEmpty == [keys |-> <<>>, val |-> <<>>]

MapHas(m, k) == k \in DOMAIN m.val

MapGetOr(m, k, d) == IF MapHas(m, k) THEN m.val[k] ELSE d

MapSet(m, k, v) ==
    IF MapHas(m, k)
    THEN [m EXCEPT !.val[k] = v]
    ELSE [keys |-> Append(m.keys, k), val |-> (k :> v) @@ m.val]

----------------------------------------------------------------------------
(* The store queries of the handler *)

\* variant: an exclusive lower bound (gt instead of gte)
SessionMatchesStrict(s, start) ==
    /\ s.mode = "work"
    /\ (start = <<>> \/ s.created_at > start[1])

SessionMatches(s, start) ==
    /\ s.mode = "work"
    /\ (start = <<>> \/ s.created_at >= start[1])

RECURSIVE SelectSessions(_, _)
SelectSessions(rows, start) ==
    IF rows = <<>> THEN <<>>
    ELSE (IF SessionMatches(Head(rows), start) THEN <<Head(rows)>> ELSE <<>>)
         \o SelectSessions(Tail(rows), start)

sessionsQuery(start) == SelectSessions(sessions, start)

TaskMatches(t, start) ==
    /\ t.status = "done"
    /\ (start = <<>> \/ t.updated_at >= start[1])

RECURSIVE SelectTasks(_, _)
SelectTasks(rows, start) ==
    IF rows = <<>> THEN <<>>
    ELSE (IF TaskMatches(Head(rows), start) THEN <<Head(rows)>> ELSE <<>>)
         \o SelectTasks(Tail(rows), start)

tasksQuery(start) == SelectTasks(tasks, start)

----------------------------------------------------------------------------
(* Aggregation *)

\* variant: every event is rounded to minutes before it is added
RECURSIVE AggregateFocusPerEvent(_, _)
AggregateFocusPerEvent(rows, m) ==
    IF rows = <<>> THEN m
    ELSE LET s == Head(rows)
             current == MapGetOr(m, s.user_id, 0)
             minutes == (2 * s.duration + 60) \div 120
         IN  AggregateFocusPerEvent(Tail(rows),
                                    MapSet(m, s.user_id, current + 60 * minutes))

RECURSIVE AggregateFocus(_, _)
AggregateFocus(rows, m) ==
    IF rows = <<>> THEN m
    ELSE LET s == Head(rows)
             current == MapGetOr(m, s.user_id, 0)
         IN  AggregateFocus(Tail(rows), MapSet(m, s.user_id, current + s.duration))

focusTimeMap(rows) == AggregateFocus(rows, MapEmpty)

RECURSIVE AggregateTasks(_, _)
AggregateTasks(rows, m) ==
    IF rows = <<>> THEN m
    ELSE LET t == Head(rows)
             current == MapGetOr(m, t.user_id, 0)
         IN  AggregateTasks(Tail(rows), MapSet(m, t.user_id, current + 1))

tasksMap(rows) == AggregateTasks(rows, MapEmpty)

RECURSIVE CollectStreaks(_, _)
CollectStreaks(rows, m) ==
    IF rows = <<>> THEN m
    ELSE LET s == Head(rows)
         IN  CollectStreaks(Tail(rows), MapSet(m, s.user_id, s.current))

streakMap(rows) == CollectStreaks(rows, MapEmpty)

RECURSIVE CollectProfiles(_, _)
CollectProfiles(rows, m) ==
    IF rows = <<>> THEN m
    ELSE CollectProfiles(Tail(rows), MapSet(m, Head(rows).id, Head(rows)))

profilesMap(rows) == CollectProfiles(rows, MapEmpty)

\* new Set([...a, ...b, ...c]): the keys in order of first appearance
RECURSIVE Dedupe(_, _)
Dedupe(ks, seen) ==
    IF ks = <<>> THEN <<>>
    ELSE IF Head(ks) \in seen THEN Dedupe(Tail(ks), seen)
         ELSE <<Head(ks)>> \o Dedupe(Tail(ks), seen \cup {Head(ks)})

userIds(fm, tm, sm) == Dedupe(fm.keys \o tm.keys \o sm.keys, {})

\* Math.round(seconds / 60): nearest integer, a half rounds up
RoundMinutes(seconds) == (2 * seconds + 60) \div 120

\* profile?.name || null
OrNull(x) == IF x = "" THEN Null ELSE x

BuildEntry(userId, pm, fm, tm, sm) ==
    [ user_id |-> userId,
      name |-> IF MapHas(pm, userId) THEN OrNull(pm.val[userId].name) ELSE Null,
      avatar_url |-> IF MapHas(pm, userId) THEN OrNull(pm.val[userId].avatar_url) ELSE Null,
      focus_time_minutes |-> RoundMinutes(MapGetOr(fm, userId, 0)),
      tasks_completed |-> MapGetOr(tm, userId, 0),
      current_streak |-> MapGetOr(sm, userId, 0),
      rank |-> 0 ]

BuildEntries(ids, pm, fm, tm, sm) ==
    [i \in 1 .. Len(ids) |-> BuildEntry(ids[i], pm, fm, tm, sm)]

----------------------------------------------------------------------------
(* Sort by the selected metric: Array.prototype.sort is stable *)

\* variant: the operands of the subtraction swapped
CompareAscending(metric, a, b) ==
    CASE metric = "focus_time" -> a.focus_time_minutes - b.focus_time_minutes
      [] metric = "tasks" -> a.tasks_completed - b.tasks_completed
      [] metric = "streak" -> a.current_streak - b.current_streak
      [] OTHER -> 0

\* variant: an unrecognised metric is sorted by the streak
CompareDefaultStreak(metric, a, b) ==
    CASE metric = "focus_time" -> b.focus_time_minutes - a.focus_time_minutes
      [] metric = "tasks" -> b.tasks_completed - a.tasks_completed
      [] OTHER -> b.current_streak - a.current_streak

Compare(metric, a, b) ==
    CASE metric = "focus_time" -> b.focus_time_minutes - a.focus_time_minutes
      [] metric = "tasks" -> b.tasks_completed - a.tasks_completed
      [] metric = "streak" -> b.current_streak - a.current_streak
      [] OTHER -> 0

RECURSIVE InsertSorted(_, _, _)
\* variant: e goes before the elements it ties with
InsertSortedBeforeEqual(metric, sorted, e) ==
    IF sorted = <<>> THEN <<e>>
    ELSE IF Compare(metric, Head(sorted), e) >= 0
         THEN <<e>> \o sorted
         ELSE <<Head(sorted)>> \o InsertSorted(metric, Tail(sorted), e)

\* e goes before the first element that the comparator orders after it
InsertSorted(metric, sorted, e) ==
    IF sorted = <<>> THEN <<e>>
    ELSE IF Compare(metric, Head(sorted), e) > 0
         THEN <<e>> \o sorted
         ELSE <<Head(sorted)>> \o InsertSorted(metric, Tail(sorted), e)

RECURSIVE SortFrom(_, _, _)
SortFrom(metric, rest, sorted) ==
    IF rest = <<>> THEN sorted
    ELSE SortFrom(metric, Tail(rest), InsertSorted(metric, sorted, Head(rest)))

Sort(metric, es) == SortFrom(metric, es, <<>>)

----------------------------------------------------------------------------
(* Rank assignment *)

\* variant: an unrecognised metric has no ranked field
RankValueRecognised(metric, entry) ==
    IF metric = "focus_time" THEN entry.focus_time_minutes
    ELSE IF metric = "tasks" THEN entry.tasks_completed
    ELSE IF metric = "streak" THEN entry.current_streak
    ELSE 0

RankValue(metric, entry) ==
    IF metric = "focus_time" THEN entry.focus_time_minutes
    ELSE IF metric = "tasks" THEN entry.tasks_completed
    ELSE entry.current_streak

\* variant: dense ranking, the rank after a tie group is the previous rank + 1
NextRankDense(position, entry, currentRank, previousValue, currentValue) ==
    IF previousValue # <<>> /\ currentValue # previousValue[1]
    THEN currentRank + 1
    ELSE currentRank

\* variant: the rank is added to the rank the entry already carries
NextRankAccumulating(position, entry, currentRank, previousValue, currentValue) ==
    entry.rank + (IF previousValue # <<>> /\ currentValue # previousValue[1]
                  THEN position
                  ELSE currentRank)

\* the rank of the entry at 1-based position `position` (index + 1)
NextRank(position, entry, currentRank, previousValue, currentValue) ==
    IF previousValue # <<>> /\ currentValue # previousValue[1]
    THEN position
    ELSE currentRank

RECURSIVE RankFrom(_, _, _, _, _)
RankFrom(metric, es, position, currentRank, previousValue) ==
    IF position > Len(es) THEN <<>>
    ELSE LET entry == es[position]
             currentValue == RankValue(metric, entry)
             rank == NextRank(position, entry, currentRank, previousValue, currentValue)
         IN  <<[entry EXCEPT !.rank = rank]>>
             \o RankFrom(metric, es, position + 1, rank, <<currentValue>>)

AssignRanks(metric, es) == RankFrom(metric, es, 1, 1, <<>>)

----------------------------------------------------------------------------
(* Pagination: Array.prototype.slice(start, end) *)

Min(a, b) == IF a < b THEN a ELSE b
Max(a, b) == IF a > b THEN a ELSE b

SliceIndex(i, len) == IF i < 0 THEN Max(len + i, 0) ELSE Min(i, len)

Slice(s, start, end) ==
    LET from == SliceIndex(start, Len(s))
        to == SliceIndex(end, Len(s))
    IN  IF to <= from THEN <<>> ELSE SubSeq(s, from + 1, to)

\* variant: limit taken as the end index of the slice
paginatedEntriesLimitAsEnd(ranked, offset, limit) == Slice(ranked, offset, limit)

paginatedEntries(ranked, offset, limit) == Slice(ranked, offset, offset + limit)

----------------------------------------------------------------------------
(* GET: the leaderboard query handler *)

Unauthorized == [status |-> 401, error |-> "Unauthorized"]

InternalError(message) == [status |-> 500, error |-> message]

\* error.message of a failed query on a table
StoreMessage(table) ==
    CASE table = "sessions" -> "sessions: store error"
      [] table = "tasks" -> "tasks: store error"
      [] OTHER -> "store error"

\* the catch block of the handler
Caught(logged) ==
    [ response |-> InternalError("Internal server error"),
      entries |-> <<>>,
      log |-> logged \o <<"Error fetching leaderboard:">> ]

\* variant: ranks assigned to the page after slicing
SuccessRankedPerPage(ranked, period, metric, offset, limit) ==
    [ status |-> 200,
      entries |-> AssignRanks(metric, paginatedEntries(ranked, offset, limit)),
      period |-> period,
      metric |-> metric,
      total |-> Len(ranked) ]

\* the JSON body of a successful response
Success(ranked, period, metric, offset, limit) ==
    [ status |-> 200,
      entries |-> paginatedEntries(ranked, offset, limit),
      period |-> period,
      metric |-> metric,
      total |-> Len(ranked) ]

Leaderboard(r) ==
    LET period == IF r.period = "" THEN "all" ELSE r.period
        metric == IF r.metric = "" THEN "focus_time" ELSE r.metric
        limit == IF r.limit = <<>> THEN DefaultLimit ELSE r.limit[1]
        offset == IF r.offset = <<>> THEN DefaultOffset ELSE r.offset[1]
        start == getDateRange(period, now)
        profilesError == fault["profiles"] = "error"
        log1 == IF profilesError THEN <<"Profiles error:">> ELSE <<>>
        pm == profilesMap(IF profilesError THEN <<>> ELSE profiles)
        fm == focusTimeMap(sessionsQuery(start))
        tm == tasksMap(tasksQuery(start))
        streaksError == fault["streaks"] = "error"
        log2 == IF streaksError THEN log1 \o <<"Streaks error:">> ELSE log1
        sm == streakMap(IF streaksError THEN <<>> ELSE streaks)
        built == BuildEntries(userIds(fm, tm, sm), pm, fm, tm, sm)
        ranked == AssignRanks(metric, Sort(metric, built))
    IN  IF fault["profiles"] = "throw" THEN Caught(<<>>)
        ELSE IF fault["sessions"] = "throw" THEN Caught(log1)
        ELSE IF fault["sessions"] = "error"
        THEN [ response |-> InternalError(StoreMessage("sessions")),
               entries |-> <<>>,
               log |-> log1 \o <<"Sessions error:">> ]
        ELSE IF fault["tasks"] = "throw" THEN Caught(log1)
        ELSE IF fault["tasks"] = "error"
        THEN [ response |-> InternalError(StoreMessage("tasks")),
               entries |-> <<>>,
               log |-> log1 \o <<"Tasks error:">> ]
        ELSE IF fault["streaks"] = "throw" THEN Caught(log1)
        ELSE [ response |-> Success(ranked, period, metric, offset, limit),
               entries |-> ranked,
               log |-> log2 ]

\* the queries the handler reaches: profiles, sessions, tasks, streaks, up to
\* the first one that makes it return
RECURSIVE QueriesReached(_)
QueriesReached(tables) ==
    IF tables = <<>> THEN <<>>
    ELSE LET t == Head(tables)
             aborts == \/ fault[t] = "throw"
                       \/ fault[t] = "error" /\ t \in {"sessions", "tasks"}
         IN  <<[op |-> "select", table |-> t]>>
             \o (IF aborts THEN <<>> ELSE QueriesReached(Tail(tables)))

GET ==
    /\ resp = <<>>
    /\ req.kind = "leaderboard"
    /\ LET authorized == getSession(cookie, now) # <<>>
           out == IF ~authorized
                  THEN [response |-> Unauthorized, entries |-> <<>>, log |-> <<>>]
                  ELSE Leaderboard(req)
       IN  /\ resp' = <<out.response>>
           /\ entries' = out.entries
           /\ log' = out.log
           /\ calls' = IF authorized
                       THEN QueriesReached(<<"profiles", "sessions", "tasks", "streaks">>)
                       ELSE <<>>
    /\ UNCHANGED <<now, profiles, sessions, tasks, streaks, fault, cookie, req,
                   authUsers, feedbacks, history>>
    /\ UNCHANGED <<inflight, ui>>

----------------------------------------------------------------------------
(* Initial states: a store content, a clock value and one request in flight *)

SeqsUpTo(S, n) == UNION {[1 .. k -> S] : k \in 0 .. n}

NoFault == [t \in Tables |-> "ok"]

ValidCookie(t) == <<Token(TRUE, TRUE, t, t + 1)>>

ProfileRows ==
    << [id |-> 1, name |-> "Ann", avatar_url |-> "ann.png"],
       [id |-> 2, name |-> Null, avatar_url |-> Null],
       [id |-> 3, name |-> "", avatar_url |-> "c.png"] >>

Request(period, metric, offset, limit) ==
    [ kind |-> "leaderboard",
      period |-> period, metric |-> metric, offset |-> offset, limit |-> limit ]

Pending ==
    /\ entries = <<>>
    /\ resp = <<>>
    /\ log = <<>>
    /\ calls = <<>>
    /\ history = <<>>
    /\ inflight = <<>>
    /\ ui = <<>>

\* the tables the leaderboard does not read
NoUsers ==
    /\ authUsers = <<>>
    /\ feedbacks = <<>>

StreakValues == {5, 8, 10}

\* ranking and pagination: one streak row per user, every page of the result
InitRanking ==
    /\ now = 0
    /\ profiles = ProfileRows
    /\ sessions = <<>>
    /\ tasks = <<>>
    /\ \E n \in 0 .. MaxRankUsers :
         \E current \in [1 .. n -> StreakValues] :
           streaks = [i \in 1 .. n |-> [user_id |-> i, current |-> current[i]]]
    /\ fault = NoFault
    /\ cookie = ValidCookie(now)
    /\ \E offset \in -1 .. MaxOffset, limit \in 0 .. MaxLimit :
         req = Request("all", "streak", <<offset>>, <<limit>>)
    /\ NoUsers
    /\ Pending

Durations == {20, 50, 90}

\* focus time: work and break sessions of two users
InitFocus ==
    /\ now = 0
    /\ profiles = ProfileRows
    /\ sessions \in SeqsUpTo([user_id : {1, 2}, mode : {"work", "shortBreak"},
                              duration : Durations, created_at : {0}], MaxSessions)
    /\ tasks = <<>>
    /\ streaks = <<>>
    /\ fault = NoFault
    /\ cookie = ValidCookie(now)
    /\ req = Request("all", "focus_time", <<>>, <<>>)
    /\ NoUsers
    /\ Pending

Periods == {"today", "week", "month", "all", ""}

\* the window of a period over the sessions: one session around the window start
InitSessionWindow ==
    /\ now \in Times
    /\ profiles = ProfileRows
    /\ \E mode \in Modes, created \in Times :
         sessions = << [user_id |-> 1, mode |-> mode, duration |-> 60,
                        created_at |-> created] >>
    /\ tasks = <<>>
    /\ streaks = << [user_id |-> 2, current |-> 4] >>
    /\ fault = NoFault
    /\ cookie = ValidCookie(now)
    /\ \E period \in Periods : req = Request(period, "focus_time", <<>>, <<>>)
    /\ NoUsers
    /\ Pending

\* the window of a period over the tasks: one task updated around the window start
InitTaskWindow ==
    /\ now \in Times
    /\ profiles = ProfileRows
    /\ sessions = <<>>
    /\ \E status \in Statuses, updated \in Times, age \in 0 .. MaxAge :
         tasks = << [user_id |-> 1, status |-> status,
                     created_at |-> Max(updated - age, 0), updated_at |-> updated] >>
    /\ streaks = << [user_id |-> 1, current |-> 4] >>
    /\ fault = NoFault
    /\ cookie = ValidCookie(now)
    /\ \E period \in Periods : req = Request(period, "tasks", <<>>, <<>>)
    /\ NoUsers
    /\ Pending

Metrics == {"focus_time", "tasks", "streak", "", "name"}

RowsOf(users, row(_)) ==
    LET RECURSIVE Build(_)
        Build(u) == IF u > MaxUnionUsers THEN <<>>
                    ELSE (IF u \in users THEN <<row(u)>> ELSE <<>>) \o Build(u + 1)
    IN  Build(1)

UnionSession(u) == [user_id |-> u, mode |-> "work", duration |-> 60 * u, created_at |-> 0]
UnionTask(u) == [user_id |-> u, status |-> "done", created_at |-> 0, updated_at |-> 0]
UnionStreak(u) == [user_id |-> u, current |-> (u % 2) * 3]

\* union of the three sources: each user in any subset of them
InitUnion ==
    /\ now = 0
    /\ profiles = ProfileRows
    /\ \E users \in SUBSET (1 .. MaxUnionUsers) : sessions = RowsOf(users, UnionSession)
    /\ \E users \in SUBSET (1 .. MaxUnionUsers) : tasks = RowsOf(users, UnionTask)
    /\ \E users \in SUBSET (1 .. MaxUnionUsers) : streaks = RowsOf(users, UnionStreak)
    /\ fault = NoFault
    /\ cookie = ValidCookie(now)
    /\ \E metric \in Metrics : req = Request("all", metric, <<>>, <<>>)
    /\ NoUsers
    /\ Pending

Cookies(t) ==
    {<<>>, <<Token(FALSE, FALSE, 0, 0)>>}
        \cup {<<Token(TRUE, sg, 0, e)>> : sg \in BOOLEAN, e \in {t, t + 1}}

\* failing queries and sessions: every outcome of every query, every cookie
InitFaults ==
    /\ now = 1
    /\ profiles = ProfileRows
    /\ sessions = << UnionSession(1) >>
    /\ tasks = << UnionTask(1), UnionTask(2) >>
    /\ \E current \in StreakValues \cup {0} :
         streaks = << [user_id |-> 2, current |-> 8], [user_id |-> 3, current |-> current] >>
    /\ fault \in [Tables -> Outcomes]
    /\ cookie \in Cookies(now)
    /\ \E period \in {"all", "today"}, metric \in {"focus_time", "streak"} :
         req = Request(period, metric, <<>>, <<>>)
    /\ NoUsers
    /\ Pending

Init ==
    \/ InitRanking
    \/ InitFocus
    \/ InitSessionWindow
    \/ InitTaskWindow
    \/ InitUnion
    \/ InitFaults

Next == GET

Spec == Init /\ [][Next]_vars

----------------------------------------------------------------------------
(* Vocabulary of the properties *)

Responded == resp # <<>>
Ok == Responded /\ resp[1].status = 200
Returned == resp[1].entries
ValidMetrics == {"focus_time", "tasks", "streak"}
ValidPeriods == {"today", "week", "month", "all"}
OffsetOf(r) == IF r.offset = <<>> THEN 0 ELSE r.offset[1]
LimitOf(r) == IF r.limit = <<>> THEN 100 ELSE r.limit[1]

\* the value of an entry under a valid metric
MetricValue(metric, e) ==
    CASE metric = "focus_time" -> e.focus_time_minutes
      [] metric = "tasks" -> e.tasks_completed
      [] metric = "streak" -> e.current_streak

NonIncreasing(metric, es) ==
    \A i, j \in 1 .. Len(es) :
        i < j => MetricValue(metric, es[i]) >= MetricValue(metric, es[j])

\* 1 + the number of entries of es with a strictly greater value than e
CompetitionRank(metric, es, e) ==
    1 + Cardinality({j \in 1 .. Len(es) :
                        MetricValue(metric, es[j]) > MetricValue(metric, e)})

ValuesOf(metric, es) == [i \in 1 .. Len(es) |-> MetricValue(metric, es[i])]
RanksOf(es) == [i \in 1 .. Len(es) |-> es[i].rank]

----------------------------------------------------------------------------
\* C1: for every store content and every valid (period, metric) pair the
\* entries the leaderboard GET returns (and the full sequence they are cut
\* from) are sorted non-increasing by the value of the chosen metric.
C1_SortedByMetric ==
    (Ok /\ resp[1].metric \in ValidMetrics /\ resp[1].period \in ValidPeriods) =>
        /\ NonIncreasing(resp[1].metric, Returned)
        /\ NonIncreasing(resp[1].metric, entries)

\* a response whose entries had to be reordered: the streak rows of the store
\* ascend, the returned entries descend
C1_Witness ==
    /\ Ok
    /\ resp[1].metric = "streak"
    /\ Len(streaks) >= 3
    /\ streaks[1].current < streaks[2].current
    /\ streaks[2].current < streaks[3].current
    /\ Len(Returned) >= 3
    /\ Returned[1].current_streak > Returned[3].current_streak

\* C2: rank assignment is standard competition ranking: the first entry has
\* rank 1, an entry tied with its predecessor has the predecessor's rank, an
\* entry whose value differs has its 1-based position as rank, so every rank is
\* 1 + the number of entries with a strictly greater value; values
\* [10,10,8,5,5] give ranks [1,1,3,4,4] and [10,10,10,5] give [1,1,1,4].
C2_CompetitionRanking ==
    (Ok /\ resp[1].metric \in ValidMetrics) =>
        LET m == resp[1].metric
        IN  /\ \A i \in 1 .. Len(entries) :
                 /\ entries[i].rank = CompetitionRank(m, entries, entries[i])
                 /\ i = 1 => entries[i].rank = 1
                 /\ (i > 1 /\ MetricValue(m, entries[i]) = MetricValue(m, entries[i - 1]))
                        => entries[i].rank = entries[i - 1].rank
                 /\ (i > 1 /\ MetricValue(m, entries[i]) # MetricValue(m, entries[i - 1]))
                        => entries[i].rank = i
            /\ ValuesOf(m, entries) = <<10, 10, 8, 5, 5>>
                   => RanksOf(entries) = <<1, 1, 3, 4, 4>>
            /\ ValuesOf(m, entries) = <<10, 10, 10, 5>>
                   => RanksOf(entries) = <<1, 1, 1, 4>>

C2_Witness ==
    /\ Ok
    /\ resp[1].metric = "streak"
    /\ ValuesOf("streak", entries) = <<10, 10, 8, 5, 5>>
    /\ RanksOf(entries) = <<1, 1, 3, 4, 4>>

\* C3: pagination is applied after ranking: for non-negative offset and limit
\* the returned entries are exactly the slice [offset, offset+limit) of the
\* fully sorted and ranked sequence, each with the rank it has in the full
\* sequence, and total is the size of the unsliced sequence whatever offset
\* and limit are.
C3_SliceAfterRanking ==
    Ok =>
        LET offset == OffsetOf(req)
            limit == LimitOf(req)
        IN  /\ resp[1].total = Len(entries)
            /\ (offset >= 0 /\ limit >= 0) =>
                 /\ Len(Returned) = Max(0, Min(limit, Len(entries) - offset))
                 /\ \A i \in 1 .. Len(Returned) :
                      /\ Returned[i] = entries[offset + i]
                      /\ resp[1].metric \in ValidMetrics =>
                           Returned[i].rank =
                               CompetitionRank(resp[1].metric, entries, Returned[i])

\* a second page whose first entry has a rank beyond the page's own positions
C3_Witness ==
    /\ Ok
    /\ req.offset = <<2>>
    /\ req.limit = <<2>>
    /\ resp[1].total = 5
    /\ Len(Returned) = 2
    /\ Returned[1].rank = 3
    /\ Returned[2].rank = 4

\* the window of the response's period: period all has no lower bound
InWindow(t) ==
    \/ resp[1].period = "all"
    \/ t >= getDateRange(resp[1].period, now)[1]

WorkIndexes(u) ==
    {i \in 1 .. Len(sessions) :
        /\ sessions[i].user_id = u
        /\ sessions[i].mode = "work"
        /\ InWindow(sessions[i].created_at)}

DoneIndexes(u) ==
    {i \in 1 .. Len(tasks) :
        /\ tasks[i].user_id = u
        /\ tasks[i].status = "done"
        /\ InWindow(tasks[i].updated_at)}

StreakIndexes(u) == {i \in 1 .. Len(streaks) : streaks[i].user_id = u}

StoreUsers ==
    {sessions[i].user_id : i \in 1 .. Len(sessions)}
        \cup {tasks[i].user_id : i \in 1 .. Len(tasks)}
        \cup {streaks[i].user_id : i \in 1 .. Len(streaks)}

RECURSIVE SumDurations(_)
SumDurations(S) ==
    IF S = {} THEN 0
    ELSE LET i == CHOOSE i \in S : TRUE
         IN  sessions[i].duration + SumDurations(S \ {i})

EntryIndexes(u) == {i \in 1 .. Len(entries) : entries[i].user_id = u}

\* minutes is seconds / 60 rounded to the nearest integer, a half rounded up
IsRoundedMinutes(minutes, seconds) ==
    /\ 60 * minutes - 30 <= seconds
    /\ seconds < 60 * minutes + 30

\* C4: the unpaginated result has exactly one entry per user id in the union
\* of the ids of work sessions inside the window, done tasks inside the window
\* and streak records; a user in none of them is absent; a value missing from
\* one source is 0.
C4_UnionOfSources ==
    (Ok /\ resp[1].period \in ValidPeriods) =>
        /\ \A u \in StoreUsers :
             Cardinality(EntryIndexes(u)) =
                 IF WorkIndexes(u) \cup DoneIndexes(u) \cup StreakIndexes(u) # {}
                 THEN 1 ELSE 0
        /\ \A i \in 1 .. Len(entries) :
             LET u == entries[i].user_id
             IN  /\ u \in StoreUsers
                 /\ WorkIndexes(u) = {} => entries[i].focus_time_minutes = 0
                 /\ DoneIndexes(u) = {} => entries[i].tasks_completed = 0
                 /\ StreakIndexes(u) = {} => entries[i].current_streak = 0

\* C5: a user's focus minutes are the sum of the raw seconds of all the
\* user's contributing work events, divided by 60 and rounded once to the
\* nearest integer with halves rounded up, never rounded per event: three work
\* events of 50s give 3 minutes, a single 90s event gives 2 minutes.
C5_SumThenRound ==
    (Ok /\ resp[1].period \in ValidPeriods) =>
        \A i \in 1 .. Len(entries) :
            LET seconds == SumDurations(WorkIndexes(entries[i].user_id))
                minutes == entries[i].focus_time_minutes
            IN  /\ IsRoundedMinutes(minutes, seconds)
                /\ seconds = 150 => minutes = 3
                /\ seconds = 90 => minutes = 2

\* three work events of 50s of one user, reported as 3 minutes
C5_Witness ==
    /\ Ok
    /\ \E i \in 1 .. Len(entries) :
         LET w == WorkIndexes(entries[i].user_id)
         IN  /\ Cardinality(w) = 3
             /\ \A k \in w : sessions[k].duration = 50
             /\ entries[i].focus_time_minutes = 3

\* C6: for a period with window start S a session contributes to focus time
\* iff its mode is work and its creation timestamp is >= S, a task counts iff
\* its status is done and its update timestamp (not its creation timestamp)
\* is >= S; a record exactly at S is included, one a second earlier is not; for
\* period all every work session and every done task contributes.
C6_WindowFilter ==
    (Ok /\ resp[1].period \in ValidPeriods) =>
        \A u \in StoreUsers :
            LET seconds == SumDurations(WorkIndexes(u))
                done == Cardinality(DoneIndexes(u))
            IN  IF EntryIndexes(u) = {}
                THEN IsRoundedMinutes(0, seconds) /\ done = 0
                ELSE \A i \in EntryIndexes(u) :
                        /\ IsRoundedMinutes(entries[i].focus_time_minutes, seconds)
                        /\ entries[i].tasks_completed = done

\* a work session created exactly at the window start of a bounded period,
\* counted with its 60 seconds
C6_Witness ==
    /\ Ok
    /\ resp[1].period \in {"today", "week", "month"}
    /\ Len(sessions) = 1
    /\ sessions[1].mode = "work"
    /\ sessions[1].created_at = getDateRange(resp[1].period, now)[1]
    /\ sessions[1].created_at < now
    /\ \E i \in 1 .. Len(entries) :
         entries[i].user_id = sessions[1].user_id /\ entries[i].focus_time_minutes = 1

\* C7: streaks are never time-windowed: under every period every user's
\* current_streak in the result is the current value of the user's streak
\* record (0 when the user has none), and a user who has only a streak record
\* appears in the result.
C7_StreakUnwindowed ==
    Ok =>
        /\ \A i \in 1 .. Len(streaks) :
             \E k \in 1 .. Len(entries) :
                 /\ entries[k].user_id = streaks[i].user_id
                 /\ entries[k].current_streak = streaks[i].current
        /\ \A k \in 1 .. Len(entries) :
             StreakIndexes(entries[k].user_id) = {} => entries[k].current_streak = 0

\* C8: if any of the source queries (profiles, sessions, tasks, streaks) fails,
\* the computation is aborted and the request surfaces an internal error; no
\* leaderboard computed from only the sources that succeeded is returned.
C8_NoPartialLeaderboard ==
    (Responded /\ resp[1].status # 401 /\ \E t \in Tables : fault[t] # "ok") =>
        resp[1].status = 500

\* C9 as stated: over a ranked result of 5 entries offset=0,limit=2 returns
\* entries 1-2 and offset=2,limit=2 returns entries 3-5, with the ranks of the
\* full sequence.
C9_PagesAsStated ==
    (Ok /\ resp[1].total = 5 /\ req.limit = <<2>>) =>
        /\ req.offset = <<0>> => Returned = SubSeq(entries, 1, 2)
        /\ req.offset = <<2>> => Returned = SubSeq(entries, 3, 5)

\* C9 as amended: over a ranked result of 5 entries offset=0,limit=2 returns
\* entries 1-2 and offset=2,limit=2 returns entries 3-4 (entry 5 is left to a
\* further page), with the ranks the entries have in the full sequence.
C9_Pages ==
    (Ok /\ resp[1].total = 5 /\ req.limit = <<2>>) =>
        /\ req.offset = <<0>> =>
             /\ Len(Returned) = 2
             /\ \A i \in 1 .. 2 :
                  /\ Returned[i].user_id = entries[i].user_id
                  /\ Returned[i].rank =
                         CompetitionRank(resp[1].metric, entries, entries[i])
        /\ req.offset = <<2>> =>
             /\ Len(Returned) = 2
             /\ \A i \in 1 .. 2 :
                  /\ Returned[i].user_id = entries[2 + i].user_id
                  /\ Returned[i].rank =
                         CompetitionRank(resp[1].metric, entries, entries[2 + i])

\* the second page of a 5-entry result: two entries, the fifth entry not in it
C9_Witness ==
    /\ Ok
    /\ resp[1].total = 5
    /\ req.offset = <<2>>
    /\ req.limit = <<2>>
    /\ Len(Returned) = 2
    /\ \A i \in 1 .. Len(Returned) : Returned[i].user_id # entries[5].user_id
    /\ Returned[1].rank > 1

\* C10: rank assignment is idempotent: sorting and walking an already sorted
\* and ranked sequence again (same metric) gives every entry the same rank.
C10_RankIdempotent ==
    Ok =>
        /\ AssignRanks(resp[1].metric, entries) = entries
        /\ AssignRanks(resp[1].metric, Sort(resp[1].metric, entries)) = entries

\* a ranked sequence with a tie and a gap after it
C10_Witness ==
    /\ Ok
    /\ Len(entries) >= 4
    /\ entries[1].rank = 1
    /\ entries[2].rank = 1
    /\ entries[3].rank = 3
    /\ entries[4].rank = 3

----------------------------------------------------------------------------
(* The middleware and the routes.  A pathname is the sequence of its pieces:  *)
(* "/users/u1.png" is <<"/", "users", "/", "u1", ".png">>.                     *)

StartsWith(s, prefix) ==
    /\ Len(prefix) <= Len(s)
    /\ SubSeq(s, 1, Len(prefix)) = prefix

RootPath == <<"/">>
LoginPath == <<"/", "login">>
LoginApiPath == <<"/", "api", "/", "auth", "/", "login">>

publicPaths == {LoginPath, LoginApiPath}

ImageExtensions == {".svg", ".png", ".jpg", ".jpeg", ".gif", ".webp"}

\* config.matcher: every path but static files, image optimisation files,
\* favicon.ico and paths that end in an image extension
matcher(pathname) ==
    LET rest == Tail(pathname)
    IN  /\ ~StartsWith(rest, <<"_next", "/", "static">>)
        /\ ~StartsWith(rest, <<"_next", "/", "image">>)
        /\ ~StartsWith(rest, <<"favicon", ".ico">>)
        /\ ~(rest # <<>> /\ rest[Len(rest)] \in ImageExtensions)

NextResponseNext == [type |-> "next"]
NextResponseRedirect(location) == [type |-> "redirect", location |-> location]

\* variant: the login page redirects whoever holds a cookie, verified or not
middlewareUnverified(pathname, c, t) ==
    IF \E path \in publicPaths : StartsWith(pathname, path)
    THEN IF pathname = LoginPath /\ c # <<>>
         THEN NextResponseRedirect(RootPath)
         ELSE NextResponseNext
    ELSE IF c = <<>> THEN NextResponseRedirect(LoginPath)
    ELSE IF jwtVerify(c[1], t) THEN NextResponseNext
    ELSE NextResponseRedirect(LoginPath)

middleware(pathname, c, t) ==
    IF \E path \in publicPaths : StartsWith(pathname, path)
    THEN IF pathname = LoginPath /\ c # <<>> /\ jwtVerify(c[1], t)
         THEN NextResponseRedirect(RootPath)
         ELSE NextResponseNext
    ELSE IF c = <<>> THEN NextResponseRedirect(LoginPath)
    ELSE IF jwtVerify(c[1], t) THEN NextResponseNext
    ELSE NextResponseRedirect(LoginPath)

\* one path segment: pieces without a "/"
IsSegment(pieces) ==
    /\ pieces # <<>>
    /\ \A i \in 1 .. Len(pieces) : pieces[i] # "/"

\* the route of the app directory that serves a pathname
RouteOf(pathname) ==
    CASE pathname = RootPath -> "page:dashboard"
      [] pathname = LoginPath -> "page:login"
      [] pathname = <<"/", "users">> -> "page:users"
      [] pathname = <<"/", "leaderboard">> -> "page:leaderboard"
      [] pathname = <<"/", "feedback">> -> "page:feedback"
      [] /\ StartsWith(pathname, <<"/", "users", "/">>)
         /\ IsSegment(SubSeq(pathname, 4, Len(pathname))) -> "page:users/[id]"
      [] pathname = <<"/", "favicon", ".ico">> -> "static"
      [] OTHER -> "not-found"

ProtectedRoutes ==
    {"page:dashboard", "page:users", "page:users/[id]", "page:leaderboard", "page:feedback"}

\* a page request: the middleware runs if the matcher selects the path, then
\* the route is rendered
ServePage(pathname, c, t) ==
    LET guard == IF matcher(pathname) THEN middleware(pathname, c, t)
                 ELSE NextResponseNext
    IN  IF guard.type = "redirect"
        THEN [status |-> 307, location |-> guard.location, guarded |-> TRUE]
        ELSE [ status |-> IF RouteOf(pathname) = "not-found" THEN 404 ELSE 200,
               route |-> RouteOf(pathname),
               guarded |-> matcher(pathname) ]

Page ==
    /\ resp = <<>>
    /\ req.kind = "page"
    /\ resp' = <<ServePage(req.pathname, cookie, now)>>
    /\ UNCHANGED <<now, profiles, sessions, tasks, streaks, fault, cookie, req, entries,
                   log, authUsers, feedbacks, calls, history>>
    /\ UNCHANGED <<inflight, ui>>

----------------------------------------------------------------------------
(* POST /api/auth/login *)

adminUser == "admin"
adminPass == "admin"

\* variant: one matching field is enough
verifyCredentialsEither(username, password) ==
    username = adminUser \/ password = adminPass

verifyCredentials(username, password) ==
    username = adminUser /\ password = adminPass

LoginResponse(body, t) ==
    IF body.malformed
    THEN [status |-> 500, error |-> "Internal server error", setCookie |-> <<>>]
    ELSE IF ~verifyCredentials(body.username, body.password)
    THEN [status |-> 401, error |-> "Invalid credentials", setCookie |-> <<>>]
    ELSE [ status |-> 200, success |-> TRUE,
           setCookie |-> <<createSession(t)>>,
           maxAge |-> 60 * 60 * 24 * 7 ]

LoginPOST ==
    /\ resp = <<>>
    /\ req.kind = "login"
    /\ LET out == LoginResponse(req.body, now)
       IN  /\ resp' = <<out>>
           /\ cookie' = IF out.setCookie # <<>> THEN out.setCookie ELSE cookie
    /\ UNCHANGED <<now, profiles, sessions, tasks, streaks, fault, req, entries, log,
                   authUsers, feedbacks, calls, history>>
    /\ UNCHANGED <<inflight, ui>>

----------------------------------------------------------------------------
(* The admin's browser: the clock advances, requests are sent one at a time *)

Tick ==
    /\ resp # <<>>
    /\ now + 1 \in Times
    /\ now' = now + 1
    /\ UNCHANGED <<profiles, sessions, tasks, streaks, fault, cookie, req, entries, resp,
                   log, authUsers, feedbacks, calls, history>>
    /\ UNCHANGED <<inflight, ui>>

Pathnames ==
    { RootPath, LoginPath,
      <<"/", "login", "-help">>,
      <<"/", "users">>,
      <<"/", "users", "/", "u1">>,
      <<"/", "users", "/", "u1", ".png">>,
      <<"/", "leaderboard">>,
      <<"/", "feedback">>,
      <<"/", "favicon", ".ico">>,
      <<"/", "_next", "/", "static", "/", "app", ".js">>,
      <<"/", "nowhere">> }

PageRequest(pathname, from) ==
    [kind |-> "page", pathname |-> pathname, redirectedFrom |-> from]

LoginBodies ==
    {[malformed |-> TRUE]}
        \cup {[malformed |-> FALSE, username |-> u, password |-> pw] :
                u \in {"admin", "root", Null}, pw \in {"admin", "guess"}}

LoginRequest(body) == [kind |-> "login", body |-> body]

AuthRequests ==
    {PageRequest(p, <<>>) : p \in Pathnames}
        \cup {LoginRequest(b) : b \in LoginBodies}
        \cup {Request("all", "streak", <<>>, <<>>)}

Send(requests) ==
    /\ resp # <<>>
    /\ req' \in requests
    /\ resp' = <<>>
    /\ entries' = <<>>
    /\ log' = <<>>
    /\ calls' = <<>>

Browse ==
    /\ Send(AuthRequests)
    /\ UNCHANGED <<now, profiles, sessions, tasks, streaks, fault, cookie,
                   authUsers, feedbacks, history>>
    /\ UNCHANGED <<inflight, ui>>

\* the browser follows a redirect
FollowRedirect ==
    /\ resp # <<>>
    /\ req.kind = "page"
    /\ resp[1].status = 307
    /\ req.redirectedFrom = <<>>
    /\ req' = PageRequest(resp[1].location, <<req.pathname>>)
    /\ resp' = <<>>
    /\ UNCHANGED <<now, profiles, sessions, tasks, streaks, fault, cookie, entries, log,
                   authUsers, feedbacks, calls, history>>
    /\ UNCHANGED <<inflight, ui>>

\* cookies the browser may hold before any login: none, garbage, a token signed
\* with another key, a token of an earlier login that is about to expire
InitialCookies ==
    { <<>>,
      <<Token(FALSE, FALSE, 0, 0)>>,
      <<Token(TRUE, FALSE, 0, SessionDays * DayLen)>>,
      <<Token(TRUE, TRUE, 0, 1)>> }

NoStore ==
    /\ profiles = <<>>
    /\ sessions = <<>>
    /\ tasks = <<>>
    /\ streaks = <<>>
    /\ NoUsers

InitAuth ==
    /\ now = 0
    /\ NoStore
    /\ fault = NoFault
    /\ cookie \in InitialCookies
    /\ req \in AuthRequests
    /\ Pending

NextAuth ==
    \/ Page
    \/ LoginPOST
    \/ GET
    \/ Tick
    \/ Browse
    \/ FollowRedirect

SpecAuth == InitAuth /\ [][NextAuth]_vars

----------------------------------------------------------------------------
(* The user handlers.  A text is the sequence of its characters; an optional  *)
(* value is <<>> (null, undefined) or <<v>>.                                   *)

MaxMutations == 2

DefaultPage == 1
DefaultUsersLimit == 20
RecentLimit == 50
BanHours == 876000

AllTables == Tables \cup {"auth", "feedbacks"}

NoFaultAll == [t \in AllTables |-> "ok"]

\* at most one store call of a request fails
SingleFaults ==
    {NoFaultAll}
        \cup {[NoFaultAll EXCEPT ![t] = o] : t \in AllTables, o \in {"error", "throw"}}

Lower(ch) ==
    CASE ch = "A" -> "a"
      [] ch = "B" -> "b"
      [] ch = "C" -> "c"
      [] OTHER -> ch

toLowerCase(text) == [i \in 1 .. Len(text) |-> Lower(text[i])]

includes(text, part) ==
    \E i \in 0 .. (Len(text) - Len(part)) : SubSeq(text, i + 1, i + Len(part)) = part

\* a || b on optional texts: the empty text is falsy
OrElse(a, b) == IF a # <<>> /\ a[1] # <<>> THEN a ELSE b

\* variant: a ban timestamp counts whether or not it has passed
isBannedWhenPresent(bannedUntil, t) == bannedUntil # <<>>

\* !!bannedUntil && new Date(bannedUntil) > new Date()
isBanned(bannedUntil, t) == bannedUntil # <<>> /\ bannedUntil[1] > t

IndexOfUser(users, id) ==
    IF \E i \in 1 .. Len(users) : users[i].id = id
    THEN CHOOSE i \in 1 .. Len(users) : users[i].id = id
    ELSE 0

RECURSIVE SelectRows(_, _, _)
\* the rows of a table whose key column holds one of the ids
SelectRows(rows, column, ids) ==
    IF rows = <<>> THEN <<>>
    ELSE (IF Head(rows)[column] \in ids THEN <<Head(rows)>> ELSE <<>>)
             \o SelectRows(Tail(rows), column, ids)

RECURSIVE InsertByCreatedDesc(_, _)
InsertByCreatedDesc(sorted, row) ==
    IF sorted = <<>> THEN <<row>>
    ELSE IF row.created_at > Head(sorted).created_at THEN <<row>> \o sorted
    ELSE <<Head(sorted)>> \o InsertByCreatedDesc(Tail(sorted), row)

RECURSIVE OrderByCreatedDesc(_)
OrderByCreatedDesc(rows) ==
    IF rows = <<>> THEN <<>>
    ELSE InsertByCreatedDesc(OrderByCreatedDesc(SubSeq(rows, 1, Len(rows) - 1)),
                             rows[Len(rows)])

\* error.message of the auth admin API
AuthMessage == "auth: store error"

\* auth.admin.listUsers({page, perPage})
listUsers(page, perPage) ==
    [ call |-> [op |-> "listUsers", page |-> page, perPage |-> perPage],
      outcome |-> fault["auth"],
      users |-> IF fault["auth"] = "ok"
                THEN Slice(authUsers, (page - 1) * perPage, page * perPage)
                ELSE <<>>,
      total |-> IF fault["auth"] = "ok" THEN Len(authUsers) ELSE 0 ]

\* auth.admin.getUserById(userId)
getUserById(userId) ==
    LET i == IndexOfUser(authUsers, userId)
    IN  [ call |-> [op |-> "getUserById", id |-> userId],
          outcome |-> IF fault["auth"] = "ok" /\ i = 0 THEN "error" ELSE fault["auth"],
          user |-> IF fault["auth"] = "ok" /\ i # 0 THEN <<authUsers[i]>> ELSE <<>> ]

\* auth.admin.updateUserById(userId, {ban_duration}): 'none' clears the ban,
\* a duration in hours bans until now + duration (24 hours a day)
updateUserById(userId, banDuration, t) ==
    LET i == IndexOfUser(authUsers, userId)
        until == IF banDuration = "none" THEN <<>>
                 ELSE <<t + (BanHours * DayLen) \div 24>>
        done == fault["auth"] = "ok" /\ i # 0
    IN  [ call |-> [op |-> "updateUserById", id |-> userId, ban_duration |-> banDuration],
          outcome |-> IF fault["auth"] = "ok" /\ i = 0 THEN "error" ELSE fault["auth"],
          users |-> IF done THEN [authUsers EXCEPT ![i].banned_until = until]
                    ELSE authUsers ]

\* from(table).select(...) with a row filter applied by the caller
selectFrom(table, rows) ==
    [ call |-> [op |-> "select", table |-> table],
      outcome |-> fault[table],
      data |-> IF fault[table] = "ok" THEN rows ELSE <<>> ]

ProfileOf(rows, id) ==
    IF \E i \in 1 .. Len(rows) : rows[i].id = id
    THEN <<rows[CHOOSE i \in 1 .. Len(rows) : rows[i].id = id]>>
    ELSE <<>>

\* one element of the users array of the listing
ListedUser(user, found, t) ==
    [ id |-> user.id,
      email |-> IF user.email = <<>> THEN <<>> ELSE user.email[1],
      name |-> OrElse(IF found = <<>> THEN <<>> ELSE found[1].name, user.full_name),
      avatar_url |-> OrElse(IF found = <<>> THEN <<>> ELSE found[1].avatar_url,
                            user.avatar_url),
      created_at |-> user.created_at,
      last_sign_in_at |-> user.last_sign_in_at,
      banned_until |-> user.banned_until,
      is_banned |-> isBanned(user.banned_until, t) ]

MatchesSearch(u, search) ==
    LET searchLower == toLowerCase(search)
    IN  \/ includes(toLowerCase(u.email), searchLower)
        \/ u.name # <<>> /\ includes(toLowerCase(u.name[1]), searchLower)

RECURSIVE FilterSearch(_, _)
FilterSearch(users, search) ==
    IF users = <<>> THEN <<>>
    ELSE (IF MatchesSearch(Head(users), search) THEN <<Head(users)>> ELSE <<>>)
             \o FilterSearch(Tail(users), search)

PageOf(r) == IF r.page = <<>> THEN DefaultPage ELSE r.page[1]
UsersLimitOf(r) == IF r.limit = <<>> THEN DefaultUsersLimit ELSE r.limit[1]

\* GET /api/admin/users after the session check
UsersList(r, t) ==
    LET page == PageOf(r)
        limit == UsersLimitOf(r)
        authData == listUsers(page, limit)
        ids == {authData.users[i].id : i \in 1 .. Len(authData.users)}
        found == selectFrom("profiles", SelectRows(profiles, "id", ids))
        combined == [i \in 1 .. Len(authData.users) |->
                        ListedUser(authData.users[i],
                                   ProfileOf(found.data, authData.users[i].id), t)]
        users == IF r.search = <<>> THEN combined ELSE FilterSearch(combined, r.search)
    IN  IF authData.outcome = "throw"
        THEN [ response |-> InternalError("Internal server error"),
               calls |-> <<authData.call>>,
               log |-> <<"Error fetching users:">> ]
        ELSE IF authData.outcome = "error"
        THEN [ response |-> InternalError(AuthMessage),
               calls |-> <<authData.call>>,
               log |-> <<"Auth error:">> ]
        ELSE IF found.outcome = "throw"
        THEN [ response |-> InternalError("Internal server error"),
               calls |-> <<authData.call, found.call>>,
               log |-> <<"Error fetching users:">> ]
        ELSE [ response |-> [ status |-> 200,
                              users |-> users,
                              total |-> IF authData.total # 0 THEN authData.total
                                        ELSE Len(users),
                              page |-> page,
                              limit |-> limit ],
               calls |-> <<authData.call, found.call>>,
               log |-> IF found.outcome = "error" THEN <<"Profiles error:">> ELSE <<>> ]

usersGET ==
    /\ resp = <<>>
    /\ req.kind = "users"
    /\ LET out == IF getSession(cookie, now) = <<>>
                  THEN [response |-> Unauthorized, calls |-> <<>>, log |-> <<>>]
                  ELSE UsersList(req, now)
       IN  /\ resp' = <<out.response>>
           /\ calls' = out.calls
           /\ log' = out.log
    /\ UNCHANGED <<now, profiles, sessions, tasks, streaks, fault, cookie, req, entries,
                   authUsers, feedbacks, history>>
    /\ UNCHANGED <<inflight, ui>>

RECURSIVE SumFocusMinutes(_)
\* filter(mode === 'work').reduce(sum + Math.floor(duration / 60))
SumFocusMinutes(rows) ==
    IF rows = <<>> THEN 0
    ELSE (IF Head(rows).mode = "work" THEN Head(rows).duration \div 60 ELSE 0)
             + SumFocusMinutes(Tail(rows))

RECURSIVE CountDone(_)
CountDone(rows) ==
    IF rows = <<>> THEN 0
    ELSE (IF Head(rows).status = "done" THEN 1 ELSE 0) + CountDone(Tail(rows))

\* GET /api/admin/users/[id] after the session check
UserDetail(userId, t) ==
    LET authUser == getUserById(userId)
        profile == selectFrom("profiles", SelectRows(profiles, "id", {userId}))
        allSessions == SelectRows(sessions, "user_id", {userId})
        recentSessions == selectFrom("sessions",
                              Slice(OrderByCreatedDesc(allSessions), 0, RecentLimit))
        allTasks == SelectRows(tasks, "user_id", {userId})
        recentTasks == selectFrom("tasks",
                           Slice(OrderByCreatedDesc(allTasks), 0, RecentLimit))
        streak == selectFrom("streaks", SelectRows(streaks, "user_id", {userId}))
        queries == <<profile, recentSessions, recentTasks, streak>>
        thrown == {i \in 1 .. 4 : queries[i].outcome = "throw"}
        reached == IF thrown = {} THEN 4
                   ELSE CHOOSE i \in thrown : \A j \in thrown : i <= j
        issued == <<authUser.call>> \o [i \in 1 .. reached |-> queries[i].call]
        user == authUser.user[1]
        profileRow == IF Len(profile.data) = 1 THEN <<profile.data[1]>> ELSE <<>>
        streakRow == IF Len(streak.data) = 1 THEN <<streak.data[1]>> ELSE <<>>
    IN  IF authUser.outcome = "throw"
        THEN [ response |-> InternalError("Internal server error"),
               calls |-> <<authUser.call>>,
               log |-> <<"Get user error:">> ]
        ELSE IF authUser.outcome = "error" \/ authUser.user = <<>>
        THEN [ response |-> [status |-> 404, error |-> "User not found"],
               calls |-> <<authUser.call>>,
               log |-> <<>> ]
        ELSE IF thrown # {}
        THEN [ response |-> InternalError("Internal server error"),
               calls |-> issued,
               log |-> <<"Get user error:">> ]
        ELSE [ response |->
                 [ status |-> 200,
                   user |->
                     [ id |-> user.id,
                       email |-> user.email,
                       name |-> OrElse(IF profileRow = <<>> THEN <<>>
                                       ELSE profileRow[1].name, user.full_name),
                       avatar_url |-> OrElse(IF profileRow = <<>> THEN <<>>
                                             ELSE profileRow[1].avatar_url,
                                             user.avatar_url),
                       created_at |-> user.created_at,
                       last_sign_in_at |-> user.last_sign_in_at,
                       banned_until |-> user.banned_until,
                       is_banned |-> isBanned(user.banned_until, t),
                       profile |-> profileRow,
                       stats |->
                         [ total_sessions |-> IF recentSessions.outcome = "ok"
                                              THEN Len(allSessions) ELSE 0,
                           total_tasks |-> IF recentTasks.outcome = "ok"
                                           THEN Len(allTasks) ELSE 0,
                           tasks_completed |-> CountDone(recentTasks.data),
                           current_streak |-> IF streakRow = <<>> THEN 0
                                              ELSE streakRow[1].current,
                           longest_streak |-> IF streakRow = <<>> THEN 0
                                              ELSE streakRow[1].longest,
                           total_focus_minutes |-> SumFocusMinutes(recentSessions.data) ] ],
                   sessions |-> recentSessions.data,
                   tasks |-> recentTasks.data ],
               calls |-> issued,
               log |-> <<>> ]

userGET ==
    /\ resp = <<>>
    /\ req.kind = "user"
    /\ LET out == IF getSession(cookie, now) = <<>>
                  THEN [response |-> Unauthorized, calls |-> <<>>, log |-> <<>>]
                  ELSE UserDetail(req.id, now)
       IN  /\ resp' = <<out.response>>
           /\ calls' = out.calls
           /\ log' = out.log
    /\ UNCHANGED <<now, profiles, sessions, tasks, streaks, fault, cookie, req, entries,
                   authUsers, feedbacks, history>>
    /\ UNCHANGED <<inflight, ui>>

\* the answer of PATCH to the result of its one store update
Updated(update, message) ==
    IF update.outcome = "throw"
    THEN [ response |-> InternalError("Internal server error"),
           calls |-> <<update.call>>, users |-> authUsers, applied |-> FALSE,
           log |-> <<"Update user error:">> ]
    ELSE IF update.outcome = "error"
    THEN [ response |-> [status |-> 400, error |-> AuthMessage],
           calls |-> <<update.call>>, users |-> authUsers, applied |-> FALSE,
           log |-> <<>> ]
    ELSE [ response |-> [status |-> 200, success |-> TRUE, message |-> message],
           calls |-> <<update.call>>, users |-> update.users, applied |-> TRUE,
           log |-> <<>> ]

\* variant: whatever is not 'disable' enables the user
UserStatusEnableByDefault(r, t) ==
    IF r.body.malformed
    THEN [ response |-> InternalError("Internal server error"),
           calls |-> <<>>, users |-> authUsers, applied |-> FALSE,
           log |-> <<"Update user error:">> ]
    ELSE IF r.body.action = "disable"
    THEN Updated(updateUserById(r.id, "876000h", t), "User disabled")
    ELSE Updated(updateUserById(r.id, "none", t), "User enabled")

\* PATCH /api/admin/users/[id] after the session check
UserStatus(r, t) ==
    IF r.body.malformed
    THEN [ response |-> InternalError("Internal server error"),
           calls |-> <<>>, users |-> authUsers, applied |-> FALSE,
           log |-> <<"Update user error:">> ]
    ELSE IF r.body.action = "disable"
    THEN Updated(updateUserById(r.id, "876000h", t), "User disabled")
    ELSE IF r.body.action = "enable"
    THEN Updated(updateUserById(r.id, "none", t), "User enabled")
    ELSE [ response |-> [status |-> 400, error |-> "Invalid action"],
           calls |-> <<>>, users |-> authUsers, applied |-> FALSE, log |-> <<>> ]

PATCH ==
    /\ resp = <<>>
    /\ req.kind = "patch"
    /\ LET out == IF getSession(cookie, now) = <<>>
                  THEN [ response |-> Unauthorized, calls |-> <<>>, users |-> authUsers,
                         applied |-> FALSE, log |-> <<>> ]
                  ELSE UserStatus(req, now)
       IN  /\ resp' = <<out.response>>
           /\ calls' = out.calls
           /\ log' = out.log
           /\ authUsers' = out.users
           /\ history' = IF out.applied
                         THEN Append(history, [id |-> req.id, action |-> req.body.action])
                         ELSE history
    /\ UNCHANGED <<now, profiles, sessions, tasks, streaks, fault, cookie, req, entries,
                   feedbacks>>
    /\ UNCHANGED <<inflight, ui>>

----------------------------------------------------------------------------
(* The admin works on the users: listings, details and status changes *)

UserIds == {1, 2, 9}

UsersTimes == {1, 2}

\* user 1 has a profile, user 2 only the metadata of the auth record; no user 9
UserRows(bannedUntil) ==
    << [ id |-> 1, email |-> << <<"a", "B">> >>, full_name |-> <<>>, avatar_url |-> <<>>,
         created_at |-> 0, last_sign_in_at |-> 1, banned_until |-> bannedUntil ],
       [ id |-> 2, email |-> << <<"C", "a">> >>, full_name |-> << <<"a", "c">> >>,
         avatar_url |-> <<>>, created_at |-> 1, last_sign_in_at |-> 1,
         banned_until |-> <<>> ] >>

UserProfileRows ==
    << [id |-> 1, name |-> << <<"B", "o">> >>, avatar_url |-> << <<"p">> >>] >>

UserSessionRows ==
    << [user_id |-> 1, mode |-> "work", duration |-> 90, created_at |-> 0],
       [user_id |-> 1, mode |-> "shortBreak", duration |-> 50, created_at |-> 1],
       [user_id |-> 2, mode |-> "work", duration |-> 120, created_at |-> 1] >>

UserTaskRows ==
    << [user_id |-> 1, status |-> "done", created_at |-> 0, updated_at |-> 1],
       [user_id |-> 1, status |-> "todo", created_at |-> 1, updated_at |-> 1] >>

UserStreakRows == << [user_id |-> 1, current |-> 5, longest |-> 8] >>

UsersRequest(search, page, limit) ==
    [kind |-> "users", search |-> search, page |-> page, limit |-> limit]

UserRequest(id) == [kind |-> "user", id |-> id]

PatchBodies ==
    {[malformed |-> TRUE]}
        \cup {[malformed |-> FALSE, action |-> a] : a \in {"disable", "enable", "delete", Null}}

PatchRequest(id, body) == [kind |-> "patch", id |-> id, body |-> body]

ReadRequests ==
    {UsersRequest(s, p, l) : s \in {<<>>, <<"B">>, <<"C">>}, p \in {<<>>, <<2>>}, l \in {<<>>, <<1>>}}
        \cup {UserRequest(id) : id \in UserIds}

PatchRequests == {PatchRequest(id, b) : id \in UserIds, b \in PatchBodies}

BrowseUsers ==
    /\ Send(IF Len(history) < MaxMutations THEN ReadRequests \cup PatchRequests
            ELSE ReadRequests)
    /\ UNCHANGED <<now, profiles, sessions, tasks, streaks, fault, cookie,
                   authUsers, feedbacks, history>>
    /\ UNCHANGED <<inflight, ui>>

InitUsers ==
    /\ now \in UsersTimes
    /\ \E b \in {<<>>, <<1>>, <<2>>} : authUsers = UserRows(b)
    /\ profiles = UserProfileRows
    /\ sessions = UserSessionRows
    /\ tasks = UserTaskRows
    /\ streaks = UserStreakRows
    /\ feedbacks = <<>>
    /\ fault \in SingleFaults
    /\ cookie \in {<<>>, ValidCookie(now)}
    /\ req \in ReadRequests \cup PatchRequests
    /\ Pending

NextUsers ==
    \/ usersGET
    \/ userGET
    \/ PATCH
    \/ BrowseUsers

SpecUsers == InitUsers /\ [][NextUsers]_vars

----------------------------------------------------------------------------
(* GET /api/admin/dashboard *)

DashboardWeekDays == 7
ChartDaysBack == 6
PerPageAll == 1000

\* date.toISOString().split('T')[0]: the calendar day of a time
DayKey(t) == t \div DayLen

RECURSIVE CountActive(_, _)
\* users.filter(!bannedUntil || new Date(bannedUntil) <= new Date()).length
CountActive(users, t) ==
    IF users = <<>> THEN 0
    ELSE (IF Head(users).banned_until = <<>> \/ Head(users).banned_until[1] <= t
          THEN 1 ELSE 0) + CountActive(Tail(users), t)

RECURSIVE CountCreatedSince(_, _)
CountCreatedSince(users, weekAgo) ==
    IF users = <<>> THEN 0
    ELSE (IF Head(users).created_at >= weekAgo THEN 1 ELSE 0)
             + CountCreatedSince(Tail(users), weekAgo)

RECURSIVE SelectWork(_)
SelectWork(rows) ==
    IF rows = <<>> THEN <<>>
    ELSE (IF Head(rows).mode = "work" THEN <<Head(rows)>> ELSE <<>>)
             \o SelectWork(Tail(rows))

RECURSIVE SelectSince(_, _)
SelectSince(rows, start) ==
    IF rows = <<>> THEN <<>>
    ELSE (IF Head(rows).created_at >= start THEN <<Head(rows)>> ELSE <<>>)
             \o SelectSince(Tail(rows), start)

RECURSIVE SelectDone(_)
SelectDone(rows) ==
    IF rows = <<>> THEN <<>>
    ELSE (IF Head(rows).status = "done" THEN <<Head(rows)>> ELSE <<>>)
             \o SelectDone(Tail(rows))

RECURSIVE SelectActiveStreaks(_)
SelectActiveStreaks(rows) ==
    IF rows = <<>> THEN <<>>
    ELSE (IF Head(rows).current > 0 THEN <<Head(rows)>> ELSE <<>>)
             \o SelectActiveStreaks(Tail(rows))

RECURSIVE LongestCurrent(_, _)
\* streaks.reduce((max, s) => Math.max(max, s.current || 0), 0)
LongestCurrent(rows, max) ==
    IF rows = <<>> THEN max
    ELSE LongestCurrent(Tail(rows), Max(max, Head(rows).current))

RECURSIVE ZeroDaysFrom(_, _, _)
\* for (i = 6; i >= 0; i--) activityByDay[key of now - i days] = 0
ZeroDaysFrom(i, t, byDay) ==
    IF i < 0 THEN byDay
    ELSE ZeroDaysFrom(i - 1, t, MapSet(byDay, DayKey(t - i * DayLen), 0))

RECURSIVE CountByDay(_, _)
\* recentSessions.forEach: increment the bucket of the session's day, if any
CountByDay(rows, byDay) ==
    IF rows = <<>> THEN byDay
    ELSE LET day == DayKey(Head(rows).created_at)
         IN  CountByDay(Tail(rows),
                        IF MapHas(byDay, day)
                        THEN MapSet(byDay, day, byDay.val[day] + 1)
                        ELSE byDay)

\* Object.entries(activityByDay).map(([date, count]) => ({date, sessions: count}))
activityChart(byDay) ==
    [i \in 1 .. Len(byDay.keys) |->
        [date |-> byDay.keys[i], sessions |-> byDay.val[byDay.keys[i]]]]

\* GET /api/admin/dashboard after the session check
Dashboard(t) ==
    LET authData == listUsers(1, 1)
        allUsers == listUsers(1, PerPageAll)
        weekAgo == t - DashboardWeekDays * DayLen
        workSessions == selectFrom("sessions", SelectWork(sessions))
        doneTasks == selectFrom("tasks", SelectDone(tasks))
        activeStreakRows == selectFrom("streaks", SelectActiveStreaks(streaks))
        recentSessions == selectFrom("sessions", SelectWork(SelectSince(sessions, weekAgo)))
        steps == <<authData, allUsers, workSessions, doneTasks, activeStreakRows,
                   recentSessions>>
        thrown == {i \in 1 .. Len(steps) : steps[i].outcome = "throw"}
        reached == IF thrown = {} THEN Len(steps)
                   ELSE CHOOSE i \in thrown : \A j \in thrown : i <= j
        activityByDay == CountByDay(recentSessions.data,
                                    ZeroDaysFrom(ChartDaysBack, t, MapEmpty))
    IN  IF authData.outcome = "throw"
        THEN [ response |-> InternalError("Internal server error"),
               calls |-> <<authData.call>>,
               log |-> <<"Error fetching dashboard:">> ]
        ELSE IF authData.outcome = "error"
        THEN [ response |-> InternalError(AuthMessage),
               calls |-> <<authData.call>>,
               log |-> <<"Auth error:">> ]
        ELSE IF thrown # {}
        THEN [ response |-> InternalError("Internal server error"),
               calls |-> [i \in 1 .. reached |-> steps[i].call],
               log |-> <<"Error fetching dashboard:">> ]
        ELSE [ response |->
                 [ status |-> 200,
                   stats |->
                     [ totalUsers |-> authData.total,
                       activeUsers |-> CountActive(allUsers.users, t),
                       newUsersThisWeek |-> CountCreatedSince(allUsers.users, weekAgo),
                       totalFocusMinutes |-> SumFocusMinutes(workSessions.data),
                       totalTasksCompleted |-> Len(doneTasks.data),
                       activeStreaks |-> Len(activeStreakRows.data),
                       longestStreak |-> LongestCurrent(activeStreakRows.data, 0) ],
                   activityChart |-> activityChart(activityByDay) ],
               calls |-> [i \in 1 .. Len(steps) |-> steps[i].call],
               log |-> <<>> ]

dashboardGET ==
    /\ resp = <<>>
    /\ req.kind = "dashboard"
    /\ LET out == IF getSession(cookie, now) = <<>>
                  THEN [response |-> Unauthorized, calls |-> <<>>, log |-> <<>>]
                  ELSE Dashboard(now)
       IN  /\ resp' = <<out.response>>
           /\ calls' = out.calls
           /\ log' = out.log
    /\ UNCHANGED <<now, profiles, sessions, tasks, streaks, fault, cookie, req, entries,
                   authUsers, feedbacks, history>>
    /\ UNCHANGED <<inflight, ui>>

DashboardRequest == [kind |-> "dashboard"]

\* the clock: at least a week after time 0
DashboardTimes == {t \in Times : t >= DashboardWeekDays * DayLen}

\* creation times around the edges of the chart: now, a day ago, the first
\* chart day, exactly a week ago, and the instant after that
CreationTimes(t) ==
    { t, t - DayLen, t - ChartDaysBack * DayLen,
      t - DashboardWeekDays * DayLen, t - DashboardWeekDays * DayLen + 1 }

ActivityRows(t) ==
    {[user_id |-> 1, mode |-> "work", duration |-> 90, created_at |-> c] :
        c \in CreationTimes(t)}
        \cup {[user_id |-> 2, mode |-> "longBreak", duration |-> 50, created_at |-> t]}

\* the activity series: any sessions around the chart's week, no failing call
InitActivity ==
    /\ now \in DashboardTimes
    /\ sessions \in SeqsUpTo(ActivityRows(now), MaxSessions)
    /\ tasks = UserTaskRows
    /\ streaks = UserStreakRows
    /\ authUsers = UserRows(<<>>)
    /\ fault = NoFaultAll
    /\ cookie = ValidCookie(now)

\* the statistics under failing store calls and without a session
InitDashboardFaults ==
    /\ now \in DashboardTimes
    /\ sessions = << [user_id |-> 1, mode |-> "work", duration |-> 90, created_at |-> now],
                     [user_id |-> 1, mode |-> "work", duration |-> 60,
                      created_at |-> now - DayLen] >>
    /\ tasks = UserTaskRows
    /\ streaks = UserStreakRows
    /\ \E b \in {<<>>, <<0>>, <<now + 1>>} : authUsers = UserRows(b)
    /\ fault \in SingleFaults
    /\ cookie \in {<<>>, ValidCookie(now)}

InitDashboard ==
    /\ InitActivity \/ InitDashboardFaults
    /\ profiles = UserProfileRows
    /\ feedbacks = <<>>
    /\ req = DashboardRequest
    /\ Pending

NextDashboard == dashboardGET

SpecDashboard == InitDashboard /\ [][NextDashboard]_vars

----------------------------------------------------------------------------
(* GET and DELETE /api/admin/feedback *)

DefaultFeedbackLimit == 20

FeedbackTypes == {"feature", "bug", "question", "other"}

Anonymous == << <<"A", "n", "o", "n", "y", "m", "o", "u", "s">> >>

FeedbackMessage == "feedbacks: store error"

RECURSIVE SelectType(_, _)
\* query.eq('type', type)
SelectType(rows, type) ==
    IF rows = <<>> THEN <<>>
    ELSE (IF Head(rows).type = type THEN <<Head(rows)>> ELSE <<>>)
             \o SelectType(Tail(rows), type)

\* .range(from, to): the rows at the 0-based positions from .. to
Range(rows, from, to) == Slice(rows, from, to + 1)

\* the element of feedbacksWithUsers for one feedback row
WithUser(feedback) ==
    IF feedback.user_id # <<>>
    THEN LET found == selectFrom("profiles",
                                 SelectRows(profiles, "id", {feedback.user_id[1]}))
             profile == IF Len(found.data) = 1 THEN <<found.data[1]>> ELSE <<>>
         IN  [ feedback |-> feedback,
               user_name |-> OrElse(IF profile = <<>> THEN <<>> ELSE profile[1].name,
                                    feedback.name),
               user_avatar |-> IF profile = <<>> THEN <<>> ELSE profile[1].avatar_url ]
    ELSE [ feedback |-> feedback,
           user_name |-> OrElse(feedback.name, Anonymous),
           user_avatar |-> <<>> ]

RECURSIVE ProfileCalls(_)
\* one profiles query per feedback that has a user_id
ProfileCalls(rows) ==
    IF rows = <<>> THEN <<>>
    ELSE (IF Head(rows).user_id # <<>>
          THEN <<[op |-> "select", table |-> "profiles"]>> ELSE <<>>)
             \o ProfileCalls(Tail(rows))

FeedbackLimitOf(r) == IF r.limit = <<>> THEN DefaultFeedbackLimit ELSE r.limit[1]

\* GET /api/admin/feedback after the session check
FeedbackList(r) ==
    LET page == PageOf(r)
        limit == FeedbackLimitOf(r)
        filtered == r.type # Null /\ r.type # "" /\ r.type # "all"
        matching == IF filtered THEN SelectType(feedbacks, r.type) ELSE feedbacks
        query == selectFrom("feedbacks",
                            Range(OrderByCreatedDesc(matching),
                                  (page - 1) * limit, page * limit - 1))
        call == [ op |-> "select", table |-> "feedbacks",
                  type |-> IF filtered THEN <<r.type>> ELSE <<>> ]
        lookups == ProfileCalls(query.data)
    IN  IF query.outcome = "throw"
        THEN [ response |-> InternalError("Internal server error"),
               calls |-> <<call>>,
               log |-> <<"Error fetching feedbacks:">> ]
        ELSE IF query.outcome = "error"
        THEN [ response |-> InternalError(FeedbackMessage),
               calls |-> <<call>>,
               log |-> <<"Error fetching feedbacks:">> ]
        ELSE IF lookups # <<>> /\ fault["profiles"] = "throw"
        THEN [ response |-> InternalError("Internal server error"),
               calls |-> <<call>> \o lookups,
               log |-> <<"Error fetching feedbacks:">> ]
        ELSE [ response |->
                 [ status |-> 200,
                   feedbacks |-> [i \in 1 .. Len(query.data) |-> WithUser(query.data[i])],
                   total |-> Len(matching),
                   page |-> page,
                   limit |-> limit ],
               calls |-> <<call>> \o lookups,
               log |-> <<>> ]

feedbackGET ==
    /\ resp = <<>>
    /\ req.kind = "feedbacks"
    /\ LET out == IF getSession(cookie, now) = <<>>
                  THEN [response |-> Unauthorized, calls |-> <<>>, log |-> <<>>]
                  ELSE FeedbackList(req)
       IN  /\ resp' = <<out.response>>
           /\ calls' = out.calls
           /\ log' = out.log
    /\ UNCHANGED <<now, profiles, sessions, tasks, streaks, fault, cookie, req, entries,
                   authUsers, feedbacks, history>>
    /\ UNCHANGED <<inflight, ui>>

RECURSIVE DeleteRows(_, _)
\* .delete().eq('id', id)
DeleteRows(rows, id) ==
    IF rows = <<>> THEN <<>>
    ELSE (IF Head(rows).id = id THEN <<>> ELSE <<Head(rows)>>)
             \o DeleteRows(Tail(rows), id)

\* DELETE /api/admin/feedback after the session check
FeedbackDelete(r) ==
    LET call == [op |-> "delete", table |-> "feedbacks", id |-> r.body.id]
    IN  IF r.body.malformed
        THEN [ response |-> InternalError("Internal server error"),
               calls |-> <<>>, rows |-> feedbacks,
               log |-> <<"Error deleting feedback:">> ]
        ELSE IF fault["feedbacks"] = "throw"
        THEN [ response |-> InternalError("Internal server error"),
               calls |-> <<call>>, rows |-> feedbacks,
               log |-> <<"Error deleting feedback:">> ]
        ELSE IF fault["feedbacks"] = "error"
        THEN [ response |-> InternalError(FeedbackMessage),
               calls |-> <<call>>, rows |-> feedbacks, log |-> <<>> ]
        ELSE [ response |-> [status |-> 200, success |-> TRUE],
               calls |-> <<call>>, rows |-> DeleteRows(feedbacks, r.body.id),
               log |-> <<>> ]

feedbackDELETE ==
    /\ resp = <<>>
    /\ req.kind = "feedback-delete"
    /\ LET out == IF getSession(cookie, now) = <<>>
                  THEN [ response |-> Unauthorized, calls |-> <<>>, rows |-> feedbacks,
                         log |-> <<>> ]
                  ELSE FeedbackDelete(req)
       IN  /\ resp' = <<out.response>>
           /\ calls' = out.calls
           /\ log' = out.log
           /\ feedbacks' = out.rows
    /\ UNCHANGED <<now, profiles, sessions, tasks, streaks, fault, cookie, req, entries,
                   authUsers, history>>
    /\ UNCHANGED <<inflight, ui>>

FeedbackRows ==
    << [ id |-> 1, type |-> "feature", user_id |-> <<1>>, name |-> <<>>,
         created_at |-> 0 ],
       [ id |-> 2, type |-> "bug", user_id |-> <<2>>, name |-> << <<"c">> >>,
         created_at |-> 1 ],
       [ id |-> 3, type |-> "bug", user_id |-> <<>>, name |-> <<>>, created_at |-> 2 ] >>

FeedbackRequest(type, page, limit) ==
    [kind |-> "feedbacks", type |-> type, page |-> page, limit |-> limit]

FeedbackDeleteRequest(body) == [kind |-> "feedback-delete", body |-> body]

FeedbackRequests ==
    {FeedbackRequest(ty, p, l) :
        ty \in FeedbackTypes \cup {Null, "", "all", "praise"},
        p \in {<<>>, <<2>>},
        l \in {<<>>, <<1>>, <<2>>}}
        \cup {FeedbackDeleteRequest([malformed |-> FALSE, id |-> id]) : id \in {1, 2, 3, 9}}
        \cup {FeedbackDeleteRequest([malformed |-> TRUE])}

BrowseFeedback ==
    /\ Send(FeedbackRequests)
    /\ UNCHANGED <<now, profiles, sessions, tasks, streaks, fault, cookie,
                   authUsers, feedbacks, history>>
    /\ UNCHANGED <<inflight, ui>>

InitFeedback ==
    /\ now = 0
    /\ profiles = UserProfileRows
    /\ sessions = <<>>
    /\ tasks = <<>>
    /\ streaks = <<>>
    /\ authUsers = <<>>
    /\ feedbacks = FeedbackRows
    /\ fault \in SingleFaults
    /\ cookie \in {<<>>, ValidCookie(now)}
    /\ req \in FeedbackRequests
    /\ Pending

NextFeedback ==
    \/ feedbackGET
    \/ feedbackDELETE
    \/ BrowseFeedback

SpecFeedback == InitFeedback /\ [][NextFeedback]_vars

----------------------------------------------------------------------------
(* POST /api/admin/leaderboard/export.  The CSV text is the sequence of its   *)
(* records, a record the sequence of its fields as they are written.          *)

MaxExport == 3

columns == <<"Rank", "Name", "Focus Time (min)", "Tasks Completed", "Current Streak">>

Unknown == <<"U", "n", "k", "n", "o", "w", "n">>

RECURSIVE DoubleQuotes(_)
\* every quote character of a field is written twice
DoubleQuotes(text) ==
    IF text = <<>> THEN <<>>
    ELSE (IF Head(text) = "\"" THEN <<"\"", "\"">> ELSE <<Head(text)>>)
             \o DoubleQuotes(Tail(text))

\* stringify's field of a text: quoted when it holds a delimiter, a quote or a
\* line break
TextField(text) ==
    IF \E i \in 1 .. Len(text) : text[i] \in {",", "\"", "\n"}
    THEN <<"\"">> \o DoubleQuotes(text) \o <<"\"">>
    ELSE text

\* stringify's field of a number: its decimal digits
NumberField(n) == ToString(n)

\* variant: a missing name is written as an empty field
csvRecordBlankName(entry) ==
    [ Rank |-> entry.rank,
      Name |-> IF entry.name # <<>> THEN entry.name[1] ELSE <<>>,
      FocusTime |-> entry.focus_time_minutes,
      TasksCompleted |-> entry.tasks_completed,
      CurrentStreak |-> entry.current_streak ]

\* the entries.map callback
csvRecord(entry) ==
    [ Rank |-> entry.rank,
      Name |-> OrElse(entry.name, <<Unknown>>)[1],
      FocusTime |-> entry.focus_time_minutes,
      TasksCompleted |-> entry.tasks_completed,
      CurrentStreak |-> entry.current_streak ]

\* one line of the output, fields in the order of the columns option
StringifyRecord(record) ==
    << NumberField(record.Rank),
       TextField(record.Name),
       NumberField(record.FocusTime),
       NumberField(record.TasksCompleted),
       NumberField(record.CurrentStreak) >>

\* stringify(csvData, {header: true, columns})
stringify(csvData) ==
    <<columns>> \o [i \in 1 .. Len(csvData) |-> StringifyRecord(csvData[i])]

\* POST (export) after the session check
Export(r, t) ==
    IF r.body.malformed \/ ~r.body.isArray
    THEN [ response |-> InternalError("Internal server error"),
           log |-> <<"Error exporting CSV:">> ]
    ELSE LET csvData == [i \in 1 .. Len(r.body.entries) |-> csvRecord(r.body.entries[i])]
         IN  [ response |->
                 [ status |-> 200,
                   contentType |-> "text/csv",
                   filename |-> <<"leaderboard", r.body.period, r.body.metric, DayKey(t)>>,
                   csv |-> stringify(csvData) ],
               log |-> <<>> ]

exportPOST ==
    /\ resp = <<>>
    /\ req.kind = "export"
    /\ LET out == IF getSession(cookie, now) = <<>>
                  THEN [response |-> Unauthorized, log |-> <<>>]
                  ELSE Export(req, now)
       IN  /\ resp' = <<out.response>>
           /\ log' = out.log
    /\ calls' = <<>>
    /\ UNCHANGED <<now, profiles, sessions, tasks, streaks, fault, cookie, req, entries,
                   authUsers, feedbacks, history>>
    /\ UNCHANGED <<inflight, ui>>

ExportNames ==
    { <<>>,
      << <<>> >>,
      << <<"A", "n">> >>,
      << <<"a", ",", "\"", "b">> >> }

\* entries as the leaderboard returns them, and one without its numbers' order
ExportEntries ==
    {[ rank |-> 1, name |-> n, focus_time_minutes |-> 25, tasks_completed |-> 3,
       current_streak |-> 0 ] : n \in ExportNames}
        \cup {[ rank |-> 2, name |-> << <<"A", "n">> >>, focus_time_minutes |-> 0,
                tasks_completed |-> 10, current_streak |-> 7 ]}

ExportBodies ==
    {[malformed |-> TRUE]}
        \cup {[malformed |-> FALSE, isArray |-> FALSE, period |-> "week", metric |-> "tasks"]}
        \cup {[ malformed |-> FALSE, isArray |-> TRUE, entries |-> e,
                period |-> "week", metric |-> "tasks" ] :
                  e \in SeqsUpTo(ExportEntries, MaxExport)}

ExportRequest(body) == [kind |-> "export", body |-> body]

InitExport ==
    /\ now \in {0, DayLen}
    /\ NoStore
    /\ fault = NoFaultAll
    /\ cookie \in {<<>>, ValidCookie(now)}
    /\ \E b \in ExportBodies : req = ExportRequest(b)
    /\ Pending

NextExport == exportPOST

SpecExport == InitExport /\ [][NextExport]_vars

----------------------------------------------------------------------------
(* Sessions, the guard and login: properties of SpecAuth *)

\* the cookie holds a well-formed token, signed with the secret, not expired at t
Authentic(c, t) ==
    /\ c # <<>>
    /\ c[1].wellformed
    /\ c[1].signed
    /\ t < c[1].payload.exp

\* the step in which the handler of a request of this kind answers
Handled(kind) ==
    /\ req.kind = kind
    /\ resp = <<>>
    /\ resp' # <<>>

C11_Step ==
    /\ Handled("login") /\ resp'[1].status = 200 =>
          LET issued == resp'[1].setCookie[1]
          IN  /\ issued.wellformed
              /\ issued.signed
              /\ issued.payload.iat = now
              /\ issued.payload.exp = now + SessionDays * DayLen
    /\ Handled("leaderboard") =>
          (resp'[1].status = 401 <=> ~Authentic(cookie, now))
    /\ getSession(cookie, now) =
          IF Authentic(cookie, now) THEN <<cookie[1].payload>> ELSE <<>>

\* C11: a token issued by login expires 7 days after its issuance; the session
\* check returns the claims exactly while the cookie's token is well formed,
\* correctly signed and not yet expired; an expired token with a valid
\* signature, a malformed token, a wrongly signed token and a missing cookie
\* all give the same null, which the handler answers with 401.
C11_SessionExpiry == [][C11_Step]_vars

\* a correctly signed token with a 7 day lifetime, presented after its expiry,
\* was rejected
C11_Witness ==
    /\ req.kind = "leaderboard"
    /\ resp # <<>>
    /\ resp[1].status = 401
    /\ cookie # <<>>
    /\ cookie[1].wellformed
    /\ cookie[1].signed
    /\ cookie[1].payload.exp = cookie[1].payload.iat + SessionDays * DayLen
    /\ cookie[1].payload.exp <= now

C12_Step ==
    ( /\ Handled("page")
      /\ RouteOf(req.pathname) \in ProtectedRoutes
      /\ getSession(cookie, now) = <<>> )
        => /\ resp'[1].status = 307
           /\ resp'[1].location = LoginPath

\* C12: a page request for a protected route whose session token is missing or
\* invalid is redirected to the login page and the route is not rendered.
C12_GuardBeforeRoute == [][C12_Step]_vars

C13_Step ==
    /\ Handled("page") /\ req.pathname = LoginPath =>
          IF Authentic(cookie, now)
          THEN /\ resp'[1].status = 307
               /\ resp'[1].location = RootPath
          ELSE /\ resp'[1].status = 200
               /\ resp'[1].route = "page:login"
    /\ ( /\ Handled("page")
         /\ req = PageRequest(RootPath, <<LoginPath>>)
         /\ Authentic(cookie, now) )
          => /\ resp'[1].status = 200
             /\ resp'[1].route = "page:dashboard"

\* C13: a request for the login page with a valid session token is redirected
\* to "/", and the redirected request is admitted there (the dashboard is
\* served, no further redirect); with a missing or invalid token the login
\* page itself is served.
C13_LoginPageRedirect == [][C13_Step]_vars

\* the redirect from the login page was followed and the dashboard served
C13_Witness ==
    /\ req = PageRequest(RootPath, <<LoginPath>>)
    /\ resp # <<>>
    /\ resp[1].status = 200
    /\ resp[1].route = "page:dashboard"

C14_Step ==
    Handled("login") =>
        LET out == resp'[1]
        IN  IF req.body.malformed
            THEN /\ out.status # 200
                 /\ out.setCookie = <<>>
                 /\ cookie' = cookie
            ELSE IF req.body.username = adminUser /\ req.body.password = adminPass
            THEN /\ out.status = 200
                 /\ out.setCookie = <<createSession(now)>>
                 /\ cookie' = out.setCookie
            ELSE /\ out.status = 401
                 /\ out.setCookie = <<>>
                 /\ cookie' = cookie

\* C14: login accepts exactly when the submitted username and the submitted
\* password both equal the configured ones; only then a token is created and
\* the session cookie set; a reject is answered 401, creates no token and
\* leaves the cookie as it was.
C14_LoginAccepts == [][C14_Step]_vars

\* the right username with a wrong password was rejected
C14_Witness ==
    /\ req.kind = "login"
    /\ ~req.body.malformed
    /\ req.body.username = adminUser
    /\ req.body.password # adminPass
    /\ resp # <<>>
    /\ resp[1].status = 401

----------------------------------------------------------------------------
(* User status: properties of SpecUsers *)

StoredUser(users, id) == users[IndexOfUser(users, id)]

BanUpdate(id, banDuration) ==
    [op |-> "updateUserById", id |-> id, ban_duration |-> banDuration]

C15_Step ==
    ( /\ Handled("patch")
      /\ getSession(cookie, now) # <<>>
      /\ ~req.body.malformed )
        => IF req.body.action = "disable"
           THEN /\ calls' = <<BanUpdate(req.id, "876000h")>>
                /\ resp'[1].status = 200 =>
                      /\ StoredUser(authUsers', req.id).banned_until # <<>>
                      /\ StoredUser(authUsers', req.id).banned_until[1] > now
           ELSE IF req.body.action = "enable"
           THEN /\ calls' = <<BanUpdate(req.id, "none")>>
                /\ resp'[1].status = 200 =>
                      StoredUser(authUsers', req.id).banned_until = <<>>
           ELSE /\ resp'[1].status = 400
                /\ calls' = <<>>
                /\ authUsers' = authUsers

\* C15: the status mutation issues exactly one store update, which sets the
\* ban for action 'disable' and clears it for action 'enable'; any other
\* action, a missing one included, is answered with a client error, issues no
\* store update and leaves the ban state of every user as it was.
C15_OneUpdatePerMutation == [][C15_Step]_vars

\* a disable went through: one update, the user's ban timestamp is set
C15_Witness ==
    /\ req.kind = "patch"
    /\ ~req.body.malformed
    /\ req.body.action = "disable"
    /\ resp # <<>>
    /\ resp[1].status = 200
    /\ Len(calls) = 1
    /\ StoredUser(authUsers, req.id).banned_until # <<>>

\* the action of the last successful mutation on a user, if any
LastMutation(id) ==
    LET on == {i \in 1 .. Len(history) : history[i].id = id}
    IN  IF on = {} THEN <<>>
        ELSE <<history[CHOOSE i \in on : \A j \in on : j <= i].action>>

\* a user record of a response agrees with the store and with the mutations
BanShown(u, t) ==
    /\ u.banned_until = StoredUser(authUsers, u.id).banned_until
    /\ u.is_banned <=> (u.banned_until # <<>> /\ u.banned_until[1] > t)
    /\ LastMutation(u.id) # <<>> =>
          /\ u.is_banned <=> (LastMutation(u.id) = <<"disable">>)
          /\ LastMutation(u.id) = <<"enable">> => u.banned_until = <<>>

C16_Step ==
    /\ Handled("users") /\ resp'[1].status = 200 =>
          \A i \in 1 .. Len(resp'[1].users) : BanShown(resp'[1].users[i], now)
    /\ Handled("user") /\ resp'[1].status = 200 => BanShown(resp'[1].user, now)

\* C16: the is_banned of a listed or detailed user is true exactly when the
\* user has a ban timestamp and it lies in the future; after successful
\* mutations on a user it is true exactly when the last one was a disable,
\* and after an enable the ban timestamp is cleared.
C16_BannedIffLastDisable == [][C16_Step]_vars

\* user 1 was disabled, then enabled, and is then listed as not banned
C16_Witness ==
    /\ history = <<[id |-> 1, action |-> "disable"], [id |-> 1, action |-> "enable"]>>
    /\ req.kind = "users"
    /\ resp # <<>>
    /\ resp[1].status = 200
    /\ \E i \in 1 .. Len(resp[1].users) :
          /\ resp[1].users[i].id = 1
          /\ ~resp[1].users[i].is_banned
          /\ resp[1].users[i].banned_until = <<>>

----------------------------------------------------------------------------
(* Store errors and the dashboard's activity series *)

\* the store call failed: its query result carries an error or it threw
Failed(call) ==
    fault[IF call.op = "select" THEN call.table ELSE "auth"] # "ok"

C17_Step ==
    ( /\ req.kind \in {"dashboard", "users", "user"}
      /\ resp = <<>>
      /\ resp' # <<>>
      /\ \E i \in 1 .. Len(calls') : Failed(calls'[i]) )
        => resp'[1] = InternalError("Internal server error")

\* C17: in the dashboard, user list and user detail handlers a failed store
\* call aborts the request with the generic internal error: no result computed
\* from the calls that succeeded is returned and the store's message is not
\* passed on.
C17_StoreErrorAborts == [][C17_Step]_vars

WorkSessionsOn(day) ==
    Cardinality({i \in 1 .. Len(sessions) :
                    /\ sessions[i].mode = "work"
                    /\ DayKey(sessions[i].created_at) = day})

\* C19: the activity series of a dashboard response has exactly 7 entries,
\* one for each of the 7 days ending today in ascending order, each with the
\* number of work sessions created on that day (0 if there is none).
C19_ActivitySeries ==
    (req.kind = "dashboard" /\ resp # <<>> /\ resp[1].status = 200) =>
        LET chart == resp[1].activityChart
        IN  /\ Len(chart) = DashboardWeekDays
            /\ \A i \in 1 .. Len(chart) :
                  /\ chart[i].date = DayKey(now) - (DashboardWeekDays - i)
                  /\ chart[i].sessions = WorkSessionsOn(chart[i].date)

----------------------------------------------------------------------------
(* The feedback listing's type filter *)

C18_Step ==
    ( /\ Handled("feedbacks")
      /\ getSession(cookie, now) # <<>>
      /\ req.type \notin FeedbackTypes \cup {Null, "", "all"} )
        => /\ resp'[1].status \in 400 .. 499
           /\ calls' = <<>>

\* C18: a feedback listing request whose type is none of feature, bug,
\* question, other, 'all' or absent is answered with a client error and no
\* query is executed for it.
C18_TypeValidated == [][C18_Step]_vars

----------------------------------------------------------------------------
(* The CSV export: properties of SpecExport *)

RECURSIVE UndoubleQuotes(_)
UndoubleQuotes(text) ==
    IF text = <<>> THEN <<>>
    ELSE IF Len(text) >= 2 /\ text[1] = "\"" /\ text[2] = "\""
    THEN <<"\"">> \o UndoubleQuotes(SubSeq(text, 3, Len(text)))
    ELSE <<Head(text)>> \o UndoubleQuotes(Tail(text))

\* the text a reader of the CSV gets back from a field
ReadField(field) ==
    IF field # <<>> /\ field[1] = "\""
    THEN UndoubleQuotes(SubSeq(field, 2, Len(field) - 1))
    ELSE field

\* a field is written bare only if it holds no delimiter, quote or line break
WellQuoted(field) ==
    (field = <<>> \/ field[1] # "\"") =>
        \A i \in 1 .. Len(field) : field[i] \notin {",", "\"", "\n"}

Exported ==
    /\ req.kind = "export"
    /\ resp # <<>>
    /\ resp[1].status = 200

\* C20: the export is the header row Rank, Name, Focus Time (min), Tasks
\* Completed, Current Streak followed by exactly one row per entry in the
\* order of the entries, with the entry's values in that column order; an
\* entry without a name has the Name "Unknown"; the header row is there for
\* an empty list too; the output is a function of the entry list alone.
C20_ExportRows ==
    Exported =>
        LET csv == resp[1].csv
            list == req.body.entries
        IN  /\ Len(csv) = Len(list) + 1
            /\ csv[1] = <<"Rank", "Name", "Focus Time (min)", "Tasks Completed",
                          "Current Streak">>
            /\ \A i \in 1 .. Len(list) :
                  /\ Len(csv[i + 1]) = 5
                  /\ csv[i + 1][1] = ToString(list[i].rank)
                  /\ WellQuoted(csv[i + 1][2])
                  /\ ReadField(csv[i + 1][2]) =
                        IF list[i].name = <<>> \/ list[i].name = << <<>> >>
                        THEN <<"U", "n", "k", "n", "o", "w", "n">>
                        ELSE list[i].name[1]
                  /\ csv[i + 1][3] = ToString(list[i].focus_time_minutes)
                  /\ csv[i + 1][4] = ToString(list[i].tasks_completed)
                  /\ csv[i + 1][5] = ToString(list[i].current_streak)

\* a list with a nameless entry and a name that needs quoting was exported
C20_Witness ==
    /\ Exported
    /\ Len(req.body.entries) >= 2
    /\ \E i \in 1 .. Len(req.body.entries) : req.body.entries[i].name = <<>>
    /\ \E i \in 1 .. Len(req.body.entries) :
          /\ req.body.entries[i].name # <<>>
          /\ \E k \in 1 .. Len(req.body.entries[i].name[1]) :
                req.body.entries[i].name[1][k] = ","

----------------------------------------------------------------------------
(* Order and ranks of the leaderboard under ties and unrecognised metrics *)

\* the map in which the union traversal first meets a user: 1 the focus-time
\* map, 2 the tasks map, 3 the streak map
FirstMap(u) ==
    IF WorkIndexes(u) # {} THEN 1
    ELSE IF DoneIndexes(u) # {} THEN 2
    ELSE 3

LeastOf(S) == CHOOSE i \in S : \A j \in S : i <= j

\* the row by which the user entered that map
FirstRow(u) ==
    IF WorkIndexes(u) # {} THEN LeastOf(WorkIndexes(u))
    ELSE IF DoneIndexes(u) # {} THEN LeastOf(DoneIndexes(u))
    ELSE LeastOf(StreakIndexes(u))

TraversedBefore(u, v) ==
    \/ FirstMap(u) < FirstMap(v)
    \/ FirstMap(u) = FirstMap(v) /\ FirstRow(u) < FirstRow(v)

\* C23: the sort is stable and has no secondary key: two entries with equal
\* values of the chosen metric are in the order of the union traversal (users
\* of the focus-time map in insertion order, then those first seen in the
\* tasks map, then those first seen in the streak map).
C23_StableSort ==
    (Ok /\ resp[1].metric \in ValidMetrics) =>
        \A i, j \in 1 .. Len(entries) :
            ( /\ i < j
              /\ MetricValue(resp[1].metric, entries[i])
                    = MetricValue(resp[1].metric, entries[j]) )
                => TraversedBefore(entries[i].user_id, entries[j].user_id)

\* a tie in which the user with the larger id was traversed first
C23_Witness ==
    /\ Ok
    /\ resp[1].metric = "tasks"
    /\ Len(entries) >= 2
    /\ entries[1].tasks_completed = entries[2].tasks_completed
    /\ entries[1].user_id > entries[2].user_id

Unrecognised == req.metric \notin ValidMetrics \cup {""}

\* C24: a request with a metric outside focus_time, tasks, streak is answered
\* 200 like any other, and its entries are in the order of the union
\* traversal, whatever their values.
C24_UnknownMetricUnsorted ==
    (Responded /\ Unrecognised /\ getSession(cookie, now) # <<>> /\ fault = NoFault) =>
        /\ Ok
        /\ \A i, j \in 1 .. Len(entries) :
              i < j => TraversedBefore(entries[i].user_id, entries[j].user_id)

\* an unrecognised metric returned a smaller streak before a larger one
C24_Witness ==
    /\ Ok
    /\ Unrecognised
    /\ Len(entries) >= 2
    /\ entries[1].current_streak < entries[2].current_streak

RankedField(e) ==
    IF resp[1].metric = "focus_time" THEN e.focus_time_minutes
    ELSE IF resp[1].metric = "tasks" THEN e.tasks_completed
    ELSE e.current_streak

\* C25: for every metric value, recognised or not, the ranks along the full
\* sequence never decrease, the first is 1, a rank is at most the 1-based
\* position, and two adjacent entries share a rank exactly when their ranked
\* fields are equal (current_streak when the metric is neither focus_time nor
\* tasks).
C25_RanksAnyMetric ==
    Ok =>
        /\ entries # <<>> => entries[1].rank = 1
        /\ \A i \in 1 .. Len(entries) : entries[i].rank <= i
        /\ \A i \in 1 .. Len(entries) - 1 :
              /\ entries[i].rank <= entries[i + 1].rank
              /\ entries[i].rank = entries[i + 1].rank
                    <=> RankedField(entries[i]) = RankedField(entries[i + 1])

\* an unrecognised metric: equal streaks apart from each other, ranks 1, 2, 3
C25_Witness ==
    /\ Ok
    /\ Unrecognised
    /\ Len(entries) = 3
    /\ entries[1].current_streak = entries[3].current_streak
    /\ entries[1].current_streak # entries[2].current_streak
    /\ RanksOf(entries) = <<1, 2, 3>>

----------------------------------------------------------------------------
(* Concurrent requests: the leaderboard handler (route.ts:253-411) and the
   dashboard handler (dashboard/route.ts:5-110) run as async functions; every
   `await` of a store query is a point where another request, a writer of the
   store or the clock may take a step.  inflight[i] holds the locals of the
   invocation serving request i.  The store answers every query here, so only
   the session check and the success path are taken. *)

MaxWrites == 1

Clients == {1, 2}

ConcurrentStart == DashboardWeekDays * DayLen + 1

\* the instants at which the concurrent requests run: the last of a day and the
\* first of the next
ConcurrentTimes == {ConcurrentStart, ConcurrentStart + 1}

LeaderboardReads == 4
DashboardReads == 6

Idle ==
    [ kind |-> "", period |-> "", metric |-> "", pc |-> 0, start |-> <<>>,
      reads |-> <<>>, times |-> <<>>, locals |-> <<>>, body |-> <<>> ]

\* variant: the accumulator is a module-level Map shared by the invocations
NewMapShared(others) == IF others = {} THEN MapEmpty ELSE CHOOSE m \in others : TRUE

\* new Map() inside the handler: a fresh Map for every invocation
NewMap(others) == MapEmpty

\* the k-th Map of the other leaderboard invocations that have got that far
LocalsOfOthers(i, k) ==
    {inflight[j].locals[k] :
        j \in {c \in Clients : /\ c # i
                                /\ inflight[c].kind = "leaderboard"
                                /\ Len(inflight[c].locals) >= k}}

\* the request reaches the handler: session check, parameters, getDateRange
Arrive(i) ==
    /\ inflight[i].pc = 0
    /\ inflight[i].body = <<>>
    /\ \E kind \in {"leaderboard", "dashboard"}, period \in {"all", "today"},
          metric \in {"focus_time", "streak"} :
         /\ kind = "dashboard" => period = "all" /\ metric = "focus_time"
         /\ inflight' =
              [inflight EXCEPT ![i] =
                 IF getSession(cookie, now) = <<>>
                 THEN [Idle EXCEPT !.kind = kind, !.body = <<Unauthorized>>]
                 ELSE [Idle EXCEPT !.kind = kind, !.period = period, !.metric = metric,
                                   !.pc = 1,
                                   !.start = IF kind = "leaderboard"
                                             THEN getDateRange(period, now) ELSE <<>>]]
    /\ UNCHANGED <<now, profiles, sessions, tasks, streaks, fault, cookie, req, entries,
                   resp, log, authUsers, feedbacks, calls, history, ui>>

\* the response of the leaderboard from the locals of one invocation
LeaderboardBody(r, pm, fm, tm, sm) ==
    Success(AssignRanks(r.metric,
                        Sort(r.metric, BuildEntries(userIds(fm, tm, sm), pm, fm, tm, sm))),
            r.period, r.metric, DefaultOffset, DefaultLimit)

\* the leaderboard handler resumes after its k-th query
LeaderboardStep(i) ==
    LET r == inflight[i]
        k == r.pc
        rows == CASE k = 1 -> profiles
                  [] k = 2 -> SelectSessions(sessions, r.start)
                  [] k = 3 -> SelectTasks(tasks, r.start)
                  [] OTHER -> streaks
        local == CASE k = 1 -> profilesMap(rows)
                   [] k = 2 -> AggregateFocus(rows, NewMap(LocalsOfOthers(i, 2)))
                   [] k = 3 -> AggregateTasks(rows, NewMap(LocalsOfOthers(i, 3)))
                   [] OTHER -> CollectStreaks(rows, NewMap(LocalsOfOthers(i, 4)))
        locals == Append(r.locals, local)
    IN  /\ r.kind = "leaderboard"
        /\ k \in 1 .. LeaderboardReads
        /\ inflight' =
             [inflight EXCEPT ![i] =
                [r EXCEPT !.reads = Append(r.reads, rows),
                          !.locals = locals,
                          !.pc = IF k = LeaderboardReads THEN 0 ELSE k + 1,
                          !.body = IF k = LeaderboardReads
                                   THEN <<LeaderboardBody(r, locals[1], locals[2],
                                                          locals[3], locals[4])>>
                                   ELSE <<>>]]
        /\ UNCHANGED <<now, profiles, sessions, tasks, streaks, fault, cookie, req,
                       entries, resp, log, authUsers, feedbacks, calls, history, ui>>

\* the response of the dashboard from the locals of one invocation
DashboardBody(locals) ==
    [ status |-> 200,
      stats |-> [ totalUsers |-> locals[1],
                  activeUsers |-> locals[2].activeUsers,
                  newUsersThisWeek |-> locals[2].newUsersThisWeek,
                  totalFocusMinutes |-> locals[3],
                  totalTasksCompleted |-> locals[4],
                  activeStreaks |-> locals[5].activeStreaks,
                  longestStreak |-> locals[5].longestStreak ],
      activityChart |-> activityChart(locals[6]) ]

\* what the dashboard handler computes from the rows of its k-th query at time t
DashboardLocal(k, rows, t, weekAgo) ==
    CASE k = 1 -> rows.total
      [] k = 2 -> [ activeUsers |-> CountActive(rows, t),
                    weekAgo |-> t - DashboardWeekDays * DayLen,
                    newUsersThisWeek |->
                        CountCreatedSince(rows, t - DashboardWeekDays * DayLen) ]
      [] k = 3 -> SumFocusMinutes(rows)
      [] k = 4 -> Len(rows)
      [] k = 5 -> [ activeStreaks |-> Len(rows),
                    longestStreak |-> LongestCurrent(rows, 0) ]
      [] OTHER -> CountByDay(rows, ZeroDaysFrom(ChartDaysBack, t, MapEmpty))

\* the dashboard handler resumes after its k-th query
DashboardStep(i) ==
    LET r == inflight[i]
        k == r.pc
        weekAgo == IF k > 2 THEN r.locals[2].weekAgo ELSE 0
        rows == CASE k = 1 -> [users |-> listUsers(1, 1).users, total |-> listUsers(1, 1).total]
                  [] k = 2 -> listUsers(1, PerPageAll).users
                  [] k = 3 -> SelectWork(sessions)
                  [] k = 4 -> SelectDone(tasks)
                  [] k = 5 -> SelectActiveStreaks(streaks)
                  [] OTHER -> SelectWork(SelectSince(sessions, weekAgo))
        locals == Append(r.locals, DashboardLocal(k, rows, now, weekAgo))
    IN  /\ r.kind = "dashboard"
        /\ k \in 1 .. DashboardReads
        /\ inflight' =
             [inflight EXCEPT ![i] =
                [r EXCEPT !.reads = Append(r.reads, rows),
                          !.times = Append(r.times, now),
                          !.locals = locals,
                          !.pc = IF k = DashboardReads THEN 0 ELSE k + 1,
                          !.body = IF k = DashboardReads THEN <<DashboardBody(locals)>>
                                   ELSE <<>>]]
        /\ UNCHANGED <<now, profiles, sessions, tasks, streaks, fault, cookie, req,
                       entries, resp, log, authUsers, feedbacks, calls, history, ui>>

\* while a request is in flight the StudyBro app, the other client of the
\* store, records a finished work session, a completed task or a longer streak
StoreWrite ==
    /\ \E i \in Clients : inflight[i].pc > 0
    /\ Len(sessions) + Len(tasks) + streaks[1].current < MaxWrites + 2
    /\ \E u \in {1, 2} :
         \/ /\ sessions' = Append(sessions, [user_id |-> u, mode |-> "work",
                                             duration |-> 90, created_at |-> now])
            /\ UNCHANGED <<tasks, streaks>>
         \/ /\ tasks' = Append(tasks, [user_id |-> u, status |-> "done",
                                       created_at |-> now, updated_at |-> now])
            /\ UNCHANGED <<sessions, streaks>>
         \/ /\ u = 1
            /\ streaks' = [streaks EXCEPT ![1].current = @ + 1]
            /\ UNCHANGED <<sessions, tasks>>
    /\ UNCHANGED <<now, profiles, fault, cookie, req, entries, resp, log, authUsers,
                   feedbacks, calls, history, inflight, ui>>

\* the clock advances while a request is in flight
Elapse ==
    /\ \E i \in Clients : inflight[i].pc > 0
    /\ now + 1 \in ConcurrentTimes
    /\ now' = now + 1
    /\ UNCHANGED <<profiles, sessions, tasks, streaks, fault, cookie, req, entries, resp,
                   log, authUsers, feedbacks, calls, history, inflight, ui>>

InitConcurrent ==
    /\ now = ConcurrentStart
    /\ profiles = ProfileRows
    /\ sessions = << [user_id |-> 1, mode |-> "work", duration |-> 120,
                      created_at |-> now - DayLen] >>
    /\ tasks = <<>>
    /\ streaks = << [user_id |-> 2, current |-> 1] >>
    /\ fault = NoFaultAll
    /\ cookie = ValidCookie(now)
    /\ authUsers = UserRows(<<>>)
    /\ feedbacks = <<>>
    /\ req = <<>>
    /\ entries = <<>>
    /\ resp = <<>>
    /\ log = <<>>
    /\ calls = <<>>
    /\ history = <<>>
    /\ inflight = [i \in Clients |-> Idle]
    /\ ui = <<>>

NextConcurrent ==
    \/ \E i \in Clients : Arrive(i)
    \/ \E i \in Clients : LeaderboardStep(i)
    \/ \E i \in Clients : DashboardStep(i)
    \/ StoreWrite
    \/ Elapse

SpecConcurrent == InitConcurrent /\ [][NextConcurrent]_vars

\* the response of a leaderboard request as a function of its parameters, the
\* window start taken from the clock, and the rows its four queries returned
LeaderboardOf(r) ==
    LeaderboardBody(r, profilesMap(r.reads[1]), focusTimeMap(r.reads[2]),
                    tasksMap(r.reads[3]), streakMap(r.reads[4]))

\* the response of a dashboard request as a function of the rows its six
\* queries returned and the clock readings between them
DashboardOf(r) ==
    DashboardBody([k \in 1 .. DashboardReads |->
                      DashboardLocal(k, r.reads[k], r.times[k],
                                     r.times[2] - DashboardWeekDays * DayLen)])

Answered(i) ==
    /\ inflight # <<>>
    /\ inflight[i].body # <<>>
    /\ inflight[i].body[1].status = 200

SameInputs(i, j) ==
    /\ inflight[i].kind = inflight[j].kind
    /\ inflight[i].period = inflight[j].period
    /\ inflight[i].metric = inflight[j].metric
    /\ inflight[i].start = inflight[j].start
    /\ inflight[i].reads = inflight[j].reads
    /\ inflight[i].kind = "dashboard" => inflight[i].times = inflight[j].times

\* C21: under every interleaving of two requests, a store writer and the
\* clock, the body of an answered leaderboard or dashboard request is a
\* function of its own parameters, its clock readings and the rows its own
\* queries returned; two requests with the same inputs get the same body
C21_Stateless ==
    /\ \A i \in Clients :
         Answered(i) =>
            inflight[i].body[1] = IF inflight[i].kind = "leaderboard"
                                  THEN LeaderboardOf(inflight[i])
                                  ELSE DashboardOf(inflight[i])
    /\ \A i, j \in Clients :
         (Answered(i) /\ Answered(j) /\ SameInputs(i, j))
            => inflight[i].body = inflight[j].body

\* two leaderboard requests interleaved: the second read the sessions while
\* the first was between its queries, and the store changed between their reads
C21_Witness ==
    /\ Answered(1) /\ Answered(2)
    /\ inflight[1].kind = "leaderboard" /\ inflight[2].kind = "leaderboard"
    /\ inflight[1].reads[2] # <<>>
    /\ inflight[2].reads[2] # inflight[1].reads[2]
    /\ inflight[1].body # inflight[2].body

----------------------------------------------------------------------------
(* The user listing with a search string: properties of SpecUsers *)

\* every user of the store as the listing shows them, in the store's order
AllListedUsers ==
    [i \in 1 .. Len(authUsers) |->
        ListedUser(authUsers[i], ProfileOf(profiles, authUsers[i].id), now)]

\* the list of all users matching the request's search string
MatchingUsers ==
    IF req.search = <<>> THEN AllListedUsers ELSE FilterSearch(AllListedUsers, req.search)

UsersListed ==
    /\ resp # <<>>
    /\ req.kind = "users"
    /\ resp[1].status = 200

\* C22: the listing for (search, page, limit) returns only users that contain
\* the search string, and they are the users at positions (page-1)*limit+1 to
\* page*limit of the list of all users matching the search.
C22_SearchPaginated ==
    (UsersListed /\ fault = NoFaultAll) =>
        LET page == PageOf(req)
            limit == UsersLimitOf(req)
        IN  /\ \A i \in 1 .. Len(resp[1].users) :
                 req.search # <<>> => MatchesSearch(resp[1].users[i], req.search)
            /\ resp[1].users = Slice(MatchingUsers, (page - 1) * limit, page * limit)

----------------------------------------------------------------------------
(* The public paths of the guard: properties of SpecAuth *)

\* the guard ran for the request and found no valid token
Unverified == cookie = <<>> \/ ~jwtVerify(cookie[1], now)

C26_Step ==
    ( /\ Handled("page")
      /\ matcher(req.pathname)
      /\ Unverified )
        => IF req.pathname \in {LoginPath, LoginApiPath}
           THEN resp'[1].status # 307
           ELSE /\ resp'[1].status = 307
                /\ resp'[1].location = LoginPath

\* C26: a request without a valid token passes the guard only when its path
\* is exactly '/login' or '/api/auth/login'; on every other path the guard
\* runs for, it is redirected to '/login'.
C26_ExactPublicPaths == [][C26_Step]_vars

----------------------------------------------------------------------------
(* The recent-activity query and the day buckets: properties of SpecDashboard *)

\* the rows the recent-activity query returns: work sessions created at or
\* after the instant seven days before now
RecentSessions == SelectWork(SelectSince(sessions, now - DashboardWeekDays * DayLen))

RECURSIVE SumSessions(_)
SumSessions(chart) ==
    IF chart = <<>> THEN 0 ELSE Head(chart).sessions + SumSessions(Tail(chart))

\* C27: every work session the recent-activity query returned is counted in
\* exactly one day bucket: its day is one of the chart's dates, and the counts
\* of the series add up to the number of sessions returned.
C27_EverySessionCounted ==
    ( /\ resp # <<>>
      /\ req.kind = "dashboard"
      /\ resp[1].status = 200
      /\ fault = NoFaultAll )
        => LET chart == resp[1].activityChart
           IN  /\ \A i \in 1 .. Len(RecentSessions) :
                    Cardinality({k \in 1 .. Len(chart) :
                                   chart[k].date = DayKey(RecentSessions[i].created_at)}) = 1
               /\ SumSessions(chart) = Len(RecentSessions)

----------------------------------------------------------------------------
(* The leaderboard page (src/unnamed/part_004:92-118): a client component.
   ui is the component's state; inflight lists the fetches it has issued, in
   order, each pending until its response is delivered.  The browser delivers
   the responses of pending fetches in any order. *)

MaxFetches == 3

PagePeriods == {"today", "week", "month", "all"}
PageMetrics == {"focus_time", "tasks", "streak"}

\* useState initial values
LeaderboardPage ==
    [ page |-> "leaderboard", mounted |-> FALSE, period |-> "week",
      metric |-> "focus_time", entries |-> <<>>, total |-> 0, loading |-> TRUE ]

\* what GET /api/admin/leaderboard?period=..&metric=.. answers
LeaderboardResponse(period, metric) ==
    IF getSession(cookie, now) = <<>> THEN Unauthorized
    ELSE Leaderboard(Request(period, metric, <<>>, <<>>)).response

\* fetchLeaderboard up to its await: setLoading(true) and the request is sent
fetchLeaderboard(u) ==
    /\ Len(inflight) < MaxFetches
    /\ ui' = [u EXCEPT !.loading = TRUE]
    /\ inflight' = Append(inflight, [period |-> u.period, metric |-> u.metric,
                                     settled |-> FALSE])

\* the effect of the first render
LeaderboardMount ==
    /\ ui.page = "leaderboard"
    /\ ~ui.mounted
    /\ fetchLeaderboard([ui EXCEPT !.mounted = TRUE])
    /\ UNCHANGED <<now, profiles, sessions, tasks, streaks, fault, cookie, req, entries,
                   resp, log, authUsers, feedbacks, calls, history>>

\* the admin picks another period tab; the effect runs the new fetchLeaderboard
setPeriod ==
    /\ ui.page = "leaderboard"
    /\ ui.mounted
    /\ \E v \in PagePeriods \ {ui.period} : fetchLeaderboard([ui EXCEPT !.period = v])
    /\ UNCHANGED <<now, profiles, sessions, tasks, streaks, fault, cookie, req, entries,
                   resp, log, authUsers, feedbacks, calls, history>>

\* the admin picks another metric button
setMetric ==
    /\ ui.page = "leaderboard"
    /\ ui.mounted
    /\ \E v \in PageMetrics \ {ui.metric} : fetchLeaderboard([ui EXCEPT !.metric = v])
    /\ UNCHANGED <<now, profiles, sessions, tasks, streaks, fault, cookie, req, entries,
                   resp, log, authUsers, feedbacks, calls, history>>

\* fetchLeaderboard after its await: the response of one pending fetch arrives
LeaderboardSettled ==
    /\ ui.page = "leaderboard"
    /\ \E k \in 1 .. Len(inflight) :
         /\ ~inflight[k].settled
         /\ LET res == LeaderboardResponse(inflight[k].period, inflight[k].metric)
            IN  ui' = IF res.status = 200
                      THEN [ui EXCEPT !.entries = res.entries, !.total = res.total,
                                      !.loading = FALSE]
                      ELSE [ui EXCEPT !.loading = FALSE]
         /\ inflight' = [inflight EXCEPT ![k].settled = TRUE]
    /\ UNCHANGED <<now, profiles, sessions, tasks, streaks, fault, cookie, req, entries,
                   resp, log, authUsers, feedbacks, calls, history>>

InitLeaderboardPage ==
    /\ now = MaxDay * DayLen
    /\ profiles = ProfileRows
    /\ sessions = << [user_id |-> 1, mode |-> "work", duration |-> 120, created_at |-> now],
                     [user_id |-> 2, mode |-> "work", duration |-> 600, created_at |-> 0] >>
    /\ tasks = << [user_id |-> 1, status |-> "done", created_at |-> 0, updated_at |-> now] >>
    /\ streaks = << [user_id |-> 2, current |-> 5] >>
    /\ \E o \in {"ok", "error"} : fault = [NoFault EXCEPT !["sessions"] = o]
    /\ cookie \in {<<>>, ValidCookie(now)}
    /\ NoUsers
    /\ req = <<>>
    /\ entries = <<>>
    /\ resp = <<>>
    /\ log = <<>>
    /\ calls = <<>>
    /\ history = <<>>
    /\ inflight = <<>>
    /\ ui = LeaderboardPage

NextLeaderboardPage ==
    \/ LeaderboardMount
    \/ setPeriod
    \/ setMetric
    \/ LeaderboardSettled

SpecLeaderboardPage == InitLeaderboardPage /\ [][NextLeaderboardPage]_vars

AllSettled ==
    /\ inflight # <<>>
    /\ \A k \in 1 .. Len(inflight) : inflight[k].settled

\* C28: once every fetch the leaderboard page has issued has settled, the
\* entries and the total it displays are those of the response to the request
\* for the period and metric now selected; the response to an earlier
\* selection has not overwritten them.
C28_LatestSelectionShown ==
    ( /\ ui # <<>>
      /\ ui.page = "leaderboard"
      /\ AllSettled
      /\ LeaderboardResponse(ui.period, ui.metric).status = 200 )
        => /\ ui.entries = LeaderboardResponse(ui.period, ui.metric).entries
           /\ ui.total = LeaderboardResponse(ui.period, ui.metric).total

----------------------------------------------------------------------------
(* The users page (src/unnamed/part_004:417-487): a client component.  ui is
   the component's state; inflight lists the requests it has sent, in order.
   A request is first served (the handler runs against the store), later its
   response is delivered to the continuation that awaits it; the network
   serves and delivers pending requests in any order.  With two users and 10
   users per page there is one page, so currentPage stays 1. *)

MaxPageRequests == 5

UsersPageLimit == 10

\* useState initial values
UsersPage ==
    [ page |-> "users", mounted |-> FALSE, users |-> <<>>, total |-> 0, loading |-> TRUE,
      searchQuery |-> <<>>, currentPage |-> 1, actionLoading |-> <<>> ]

PendingPatches == {k \in 1 .. Len(inflight) : inflight[k].kind = "patch" /\ ~inflight[k].settled}

\* requests the page can still send, one kept back for the refetch of every
\* toggle that may yet fail
Room == MaxPageRequests - Len(inflight) - Cardinality(PendingPatches)

ListFetch(search, page) ==
    [ kind |-> "users", search |-> search, page |-> page, response |-> <<>>,
      settled |-> FALSE ]

\* fetchUsers up to its await, with the searchQuery and currentPage of the
\* render that created it
fetchUsers(u, search, page, sent) ==
    /\ ui' = [u EXCEPT !.loading = TRUE]
    /\ inflight' = Append(sent, ListFetch(search, page))

\* the effect of the first render
UsersMount ==
    /\ ui.page = "users"
    /\ ~ui.mounted
    /\ fetchUsers([ui EXCEPT !.mounted = TRUE], ui.searchQuery, ui.currentPage, inflight)
    /\ UNCHANGED <<now, profiles, sessions, tasks, streaks, fault, cookie, req, entries,
                   resp, log, authUsers, feedbacks, calls, history>>

\* the admin edits the search box; the effect runs the new fetchUsers
setSearchQuery ==
    /\ ui.page = "users"
    /\ ui.mounted
    /\ Room >= 1
    /\ \E q \in {<<>>, <<"a">>} \ {ui.searchQuery} :
         fetchUsers([ui EXCEPT !.searchQuery = q], q, ui.currentPage, inflight)
    /\ UNCHANGED <<now, profiles, sessions, tasks, streaks, fault, cookie, req, entries,
                   resp, log, authUsers, feedbacks, calls, history>>

\* prev.map(u => u.id === userId ? {...u, is_banned: !isBanned} : u)
FlipStatus(users, userId, isBannedNow) ==
    [i \in 1 .. Len(users) |->
        IF users[i].id = userId THEN [users[i] EXCEPT !.is_banned = ~isBannedNow]
        ELSE users[i]]

\* disabled={actionLoading === user.id}
ActionDisabled(u, userId) == u.actionLoading = <<userId>>

\* handleToggleStatus up to its await: the admin picks Enable or Disable in the
\* menu of a listed user whose control is enabled
handleToggleStatus ==
    /\ ui.page = "users"
    /\ ~ui.loading
    /\ Room >= 2
    /\ \E i \in 1 .. Len(ui.users) :
         LET user == ui.users[i]
         IN  /\ ~ActionDisabled(ui, user.id)
             /\ ui' = [ui EXCEPT !.actionLoading = <<user.id>>,
                                 !.users = FlipStatus(ui.users, user.id, user.is_banned)]
             /\ inflight' =
                  Append(inflight,
                         [ kind |-> "patch", id |-> user.id,
                           action |-> IF user.is_banned THEN "enable" ELSE "disable",
                           search |-> ui.searchQuery, page |-> ui.currentPage,
                           response |-> <<>>, settled |-> FALSE ])
    /\ UNCHANGED <<now, profiles, sessions, tasks, streaks, fault, cookie, req, entries,
                   resp, log, authUsers, feedbacks, calls, history>>

\* the server handles one of the requests on their way: the list handler
\* reads the store, the PATCH handler updates it
Serve ==
    /\ ui.page = "users"
    /\ \E k \in 1 .. Len(inflight) :
         LET f == inflight[k]
             authorized == getSession(cookie, now) # <<>>
             listed == IF authorized
                       THEN UsersList(UsersRequest(f.search, <<f.page>>, <<UsersPageLimit>>),
                                      now).response
                       ELSE Unauthorized
             patched == IF authorized
                        THEN UserStatus(PatchRequest(f.id, [malformed |-> FALSE,
                                                            action |-> f.action]), now)
                        ELSE [response |-> Unauthorized, users |-> authUsers]
         IN  /\ f.response = <<>>
             /\ IF f.kind = "users"
                THEN /\ inflight' = [inflight EXCEPT ![k].response = <<listed>>]
                     /\ UNCHANGED authUsers
                ELSE /\ inflight' = [inflight EXCEPT ![k].response = <<patched.response>>]
                     /\ authUsers' = patched.users
    /\ UNCHANGED <<now, profiles, sessions, tasks, streaks, fault, cookie, req, entries,
                   resp, log, feedbacks, calls, history, ui>>

\* fetchUsers after its await
UsersDelivered ==
    /\ ui.page = "users"
    /\ \E k \in 1 .. Len(inflight) :
         LET f == inflight[k]
         IN  /\ f.kind = "users"
             /\ f.response # <<>>
             /\ ~f.settled
             /\ ui' = IF f.response[1].status = 200
                      THEN [ui EXCEPT !.users = f.response[1].users,
                                      !.total = f.response[1].total,
                                      !.loading = FALSE]
                      ELSE [ui EXCEPT !.loading = FALSE]
             /\ inflight' = [inflight EXCEPT ![k].settled = TRUE]
    /\ UNCHANGED <<now, profiles, sessions, tasks, streaks, fault, cookie, req, entries,
                   resp, log, authUsers, feedbacks, calls, history>>

\* handleToggleStatus after its await: a failed toggle refetches the list;
\* finally setActionLoading(null)
ToggleDelivered ==
    /\ ui.page = "users"
    /\ \E k \in 1 .. Len(inflight) :
         LET f == inflight[k]
             sent == [inflight EXCEPT ![k].settled = TRUE]
             u == [ui EXCEPT !.actionLoading = <<>>]
         IN  /\ f.kind = "patch"
             /\ f.response # <<>>
             /\ ~f.settled
             /\ IF f.response[1].status # 200
                THEN fetchUsers(u, f.search, f.page, sent)
                ELSE /\ ui' = u
                     /\ inflight' = sent
    /\ UNCHANGED <<now, profiles, sessions, tasks, streaks, fault, cookie, req, entries,
                   resp, log, authUsers, feedbacks, calls, history>>

\* the store's auth service goes down or comes back
StoreOutage ==
    /\ ui.page = "users"
    /\ ui.mounted
    /\ fault' = [fault EXCEPT !["auth"] = IF @ = "ok" THEN "error" ELSE "ok"]
    /\ UNCHANGED <<now, profiles, sessions, tasks, streaks, cookie, req, entries, resp,
                   log, authUsers, feedbacks, calls, history, inflight, ui>>

InitUsersPage ==
    /\ now = 1
    /\ \E b \in {<<>>, <<2>>} : authUsers = UserRows(b)
    /\ profiles = UserProfileRows
    /\ sessions = <<>>
    /\ tasks = <<>>
    /\ streaks = <<>>
    /\ feedbacks = <<>>
    /\ fault = NoFaultAll
    /\ cookie = ValidCookie(now)
    /\ req = <<>>
    /\ entries = <<>>
    /\ resp = <<>>
    /\ log = <<>>
    /\ calls = <<>>
    /\ history = <<>>
    /\ inflight = <<>>
    /\ ui = UsersPage

NextUsersPage ==
    \/ UsersMount
    \/ setSearchQuery
    \/ handleToggleStatus
    \/ Serve
    \/ UsersDelivered
    \/ ToggleDelivered
    \/ StoreOutage

SpecUsersPage == InitUsersPage /\ [][NextUsersPage]_vars

\* C29: while an enable/disable request for a user is in flight, that user's
\* action control is disabled, also when toggles for different users overlap.
C29_ControlDisabledInFlight ==
    (ui # <<>> /\ ui.page = "users") =>
        \A k \in PendingPatches : ActionDisabled(ui, inflight[k].id)


Toggled == {inflight[k].id : k \in {j \in 1 .. Len(inflight) : inflight[j].kind = "patch"}}

\* the ban state of a user in the store
BannedInStore(userId) ==
    isBanned(authUsers[IndexOfUser(authUsers, userId)].banned_until, now)

\* C30: once a toggle and every list fetch have settled, the is_banned the
\* users page shows for a toggled user is the user's ban state in the store,
\* whether the mutation succeeded or failed (the page is the only writer).
C30_OptimisticConverges ==
    (ui # <<>> /\ ui.page = "users" /\ AllSettled) =>
        \A i \in 1 .. Len(ui.users) :
            ui.users[i].id \in Toggled => ui.users[i].is_banned = BannedInStore(ui.users[i].id)

====
